---- MODULE Spec2Model ----
EXTENDS Integers, Sequences, FiniteSets, TLC

(***************************************************************************)
(* A model of the classifier router: the POST /v1/chat/completions         *)
(* handler (router), the classifier client (classifier.js), the decision   *)
(* cache (cache.js) and the helpers they use (utils.js).                   *)
(*                                                                         *)
(* Text is a sequence of one-character strings, so that substring tests    *)
(* and digit scans are computed the way the code computes them.            *)
(***************************************************************************)

VARIABLES
    config,     \* the frozen configuration (config.js)
    cache,      \* the decision cache backend: fingerprint -> stored string
    cacheLost,  \* TRUE once an entry expired or was evicted
    req,        \* the inbound requests, each with its handler's position
    cls,        \* one classifyRequest call, stepped through its awaits
    sse,        \* one readDecisionFromSse call, stepped through its reads
    util,       \* one call of a helper of utils.js: its arguments and result
    kv,         \* one cache backend instance (cache.js), its clock and its operations
    buckets,    \* the usage buckets of token_tracker.js, one per route and unknown
    px          \* one request in a provider adapter: the upstream's reply and the usage recorded

vars == <<config, cache, cacheLost, req, cls, sse, util, kv, buckets, px>>

----------------------------------------------------------------------------
\* Bounds of the model.

\* Number of inbound requests handled concurrently.
NReq == 2
\* Largest value of classifier.loadingMaxRetries explored.
MaxLoadingRetries == 2
\* Largest number of chunks an upstream byte stream is split into.
MaxChunks == 2
\* Longest text the helpers of utils.js are applied to.
MaxText == 3
\* Longest array of content parts, and longest list of messages.
MaxParts == 2
\* Number of clock ticks (of 500 ms) a cache backend instance is run for.
MaxTicks == 3
\* Number of requests proxied one after the other.
MaxProxied == 2

----------------------------------------------------------------------------
\* JavaScript values.

\* null / undefined in a position that holds text.
Undefined == <<"undefined">>
\* decision = null (router line 68) and the result of Number() on a
\* non-numeric string.
NullDecision == -1
NaN == -2

Decisions == {0, 1, 2}

Max(a, b) == IF a >= b THEN a ELSE b
MinOf(S) == CHOOSE x \in S : \A y \in S : x <= y

\* String.prototype.toLowerCase on the letters that occur in the model.
LowerChar(c) ==
    CASE c = "L" -> "l" [] c = "M" -> "m" [] c = "A" -> "a" [] c = "T" -> "t"
      [] c = "U" -> "u" [] c = "J" -> "j" [] c = "S" -> "s" [] c = "O" -> "o"
      [] c = "N" -> "n" [] c = "C" -> "c" [] OTHER -> c

toLowerCase(s) == [i \in 1..Len(s) |-> LowerChar(s[i])]

\* String.prototype.includes
includes(s, p) ==
    \E i \in 0..(Len(s) - Len(p)) : SubSeq(s, i + 1, i + Len(p)) = p

PatLoadingModel ==
    <<"l","o","a","d","i","n","g"," ","m","o","d","e","l">>
PatAborted ==
    <<"a","b","o","r","t","e","d">>
BodyModelLoadingPleaseWait ==
    <<"m","o","d","e","l"," ","l","o","a","d","i","n","g",","," ","p","l","e","a","s","e"," ","w","a","i","t">>
BodyLoadingModelPleaseWait ==
    <<"l","o","a","d","i","n","g"," ","m","o","d","e","l",","," ","p","l","e","a","s","e"," ","w","a","i","t">>
BodyLoadingModelUpper ==
    <<"L","o","a","d","i","n","g"," ","m","o","d","e","l">>
BodyLoadingModelAborted ==
    <<"l","o","a","d","i","n","g"," ","m","o","d","e","l",","," ","r","e","q","u","e","s","t"," ","a","b","o","r","t","e","d">>
BodyInternalError ==
    <<"i","n","t","e","r","n","a","l"," ","e","r","r","o","r">>
BodyRequestAborted ==
    <<"r","e","q","u","e","s","t"," ","a","b","o","r","t","e","d">>
MsgAbort ==
    <<"T","h","i","s"," ","o","p","e","r","a","t","i","o","n"," ","w","a","s"," ","a","b","o","r","t","e","d">>
MsgFetchFailed ==
    <<"f","e","t","c","h"," ","f","a","i","l","e","d">>
MsgBadJson ==
    <<"U","n","e","x","p","e","c","t","e","d"," ","t","o","k","e","n"," ","d"," ","i","n"," ","J","S","O","N"," ","a","t"," ","p","o","s","i","t","i","o","n"," ","0">>
MsgNoDecision ==
    <<"c","l","a","s","s","i","f","i","e","r"," ","r","e","t","u","r","n","e","d"," ","n","o"," ","d","e","c","i","s","i","o","n">>
PrefixModelLoading ==
    <<"c","l","a","s","s","i","f","i","e","r"," ","m","o","d","e","l"," ","l","o","a","d","i","n","g",":"," ">>
PrefixClassifierError ==
    <<"c","l","a","s","s","i","f","i","e","r"," ","e","r","r","o","r",":"," ">>

\* `${res.status}` for the statuses the model's classifier endpoint answers.
StatusText(status) ==
    CASE status = 503 -> <<"5","0","3">>
      [] status = 500 -> <<"5","0","0">>
      [] OTHER -> <<"2","0","0">>

----------------------------------------------------------------------------
\* utils.js

DigitValue(c) == CASE c = "0" -> 0 [] c = "1" -> 1 [] OTHER -> 2

\* The scan taking the last digit instead of the first.
extractDecisionLast(text) ==
    LET hits == {i \in 1..Len(text) : text[i] \in {"0", "1", "2"}}
    IN IF text = Undefined \/ hits = {} THEN NullDecision
       ELSE DigitValue(text[CHOOSE i \in hits : \A j \in hits : j <= i])

extractDecision(text) ==
    IF text = Undefined \/ text = <<>> THEN NullDecision
    ELSE LET hits == {i \in 1..Len(text) : text[i] \in {"0", "1", "2"}}
         IN IF hits = {} THEN NullDecision
            ELSE DigitValue(text[MinOf(hits)])

----------------------------------------------------------------------------
\* The classifier endpoint's answers, as the classifier client sees them.

\* A response body is a sequence of atoms: the line break, the "data:"
\* prefix, the "[DONE]" payload, an SSE comment, bytes that are no JSON, and
\* one JSON document with the three fields the client reads
\* (choices[0].delta.content, choices[0].message.content, choices[0].text).
NL == [a |-> "nl"]
Data == [a |-> "data"]
Done == [a |-> "done"]
Comment == [a |-> "comment"]
Garbage == [a |-> "garbage"]
Json(delta, message, text) ==
    [a |-> "json", delta |-> delta, message |-> message, text |-> text]
JDelta(t) == Json(t, Undefined, Undefined)
JMsg(t) == Json(Undefined, t, Undefined)
JText(t) == Json(Undefined, Undefined, t)

\* One complete SSE event line carrying a delta.
Ev(t) == <<Data, JDelta(t), NL>>

\* Bodies of streamed answers, before they are cut into chunks.
SseTexts ==
    { Ev(<<"0">>),
      Ev(<<"0">>) \o Ev(<<"1">>),
      Ev(<<>>) \o Ev(<<"2">>) \o <<Data, Done, NL>>,
      <<Data, Done, NL>> \o Ev(<<"1">>),
      <<Comment, NL, Data, Garbage, NL>> \o Ev(<<"x", "1">>) \o Ev(<<"0">>),
      <<Data, JDelta(<<"1">>)>>,
      <<Data, JText(<<"2">>), NL>>,
      <<Data, Json(<<>>, Undefined, <<"1">>), NL>>,
      Ev(<<"3">>) \o Ev(<<"n", "o">>),
      <<JMsg(<<"1">>), NL>> \o Ev(<<"2">>) \o Ev(<<"1">>) }

\* Every way of cutting a body into at most n non-empty chunks.
RECURSIVE Cuts(_, _)
Cuts(text, n) ==
    IF text = <<>> THEN {<<>>}
    ELSE IF n <= 1 THEN {<<text>>}
    ELSE {<<text>>} \cup
         UNION { { <<SubSeq(text, 1, i)>> \o rest :
                     rest \in Cuts(SubSeq(text, i + 1, Len(text)), n - 1) } :
                 i \in 1..(Len(text) - 1) }

SseStreams == UNION { Cuts(t, MaxChunks) : t \in SseTexts }

\* Bodies the classifier endpoint answers with status 200: event streams
\* (whole, and cut inside a line) and JSON documents.
OkBodies ==
    { <<Ev(<<"0">>)>>,
      <<Ev(<<"0">>) \o Ev(<<"1">>)>>,
      <<<<Data>>, <<JDelta(<<"1">>), NL, Data, Done, NL>>>>,
      <<<<Data, Done, NL>> \o Ev(<<"1">>)>>,
      <<Ev(<<"3">>), Ev(<<"2">>)>>,
      <<Ev(<<"3">>) \o Ev(<<"n", "o">>)>>,
      <<<<JMsg(<<"0">>)>>>>, <<<<JMsg(<<"1">>)>>>>, <<<<JMsg(<<" ", "2", "1">>)>>>>,
      <<<<JMsg(<<"3">>)>>>>, <<<<Json(Undefined, <<>>, <<"2">>)>>>>, <<<<Garbage>>>> }

\* Bodies the classifier endpoint answers with a non-OK status.
ErrorBodies ==
    { BodyModelLoadingPleaseWait, BodyLoadingModelPleaseWait, BodyLoadingModelUpper,
      BodyLoadingModelAborted, BodyInternalError, BodyRequestAborted }

\* What one classifier HTTP call can end in: the timer aborts it, the
\* transport fails, the endpoint answers non-OK, or it answers 200.
Outcomes ==
    { [kind |-> "abort"], [kind |-> "network"] } \cup
    { [kind |-> "status", status |-> 503, text |-> b] : b \in ErrorBodies } \cup
    { [kind |-> "ok", chunks |-> c] : c \in OkBodies }

----------------------------------------------------------------------------
\* classifier.js: errors

NoError == [name |-> "none", code |-> "none", message |-> <<>>, body |-> Undefined]
\* The DOMException fetch rejects with when its signal is aborted.
AbortError ==
    [name |-> "AbortError", code |-> "20", message |-> MsgAbort, body |-> Undefined]
FetchFailed ==
    [name |-> "TypeError", code |-> "none", message |-> MsgFetchFailed, body |-> Undefined]
SyntaxError ==
    [name |-> "SyntaxError", code |-> "none", message |-> MsgBadJson, body |-> Undefined]
NoDecisionError ==
    [name |-> "Error", code |-> "none", message |-> MsgNoDecision, body |-> Undefined]
ModelLoadingError(status, text) ==
    [name |-> "Error", code |-> "MODEL_LOADING",
     message |-> PrefixModelLoading \o StatusText(status) \o <<" ">> \o text,
     body |-> text]
ClassifierError(status, text) ==
    [name |-> "Error", code |-> "none",
     message |-> PrefixClassifierError \o StatusText(status) \o <<" ">> \o text,
     body |-> Undefined]

isAbortError(err) ==
    \/ err.name = "AbortError"
    \/ err.code = "20"
    \/ includes(toLowerCase(err.message), PatAborted)

\* isModelLoadingMessage looking for "model loading" instead.
isModelLoadingMessageSwapped(text) ==
    includes(toLowerCase(text),
             <<"m","o","d","e","l"," ","l","o","a","d","i","n","g">>)

isModelLoadingMessage(text) ==
    includes(toLowerCase(text), PatLoadingModel)

isModelLoadingError(err) ==
    \/ err.code = "MODEL_LOADING"
    \/ isModelLoadingMessage(
         IF err.body # Undefined /\ err.body # <<>> THEN err.body ELSE err.message)

\* a ?? b
Coalesce(a, b) == IF a # Undefined THEN a ELSE b

----------------------------------------------------------------------------
\* classifier.js: readDecisionFromSse

\* buffer.split("\n")
RECURSIVE split(_)
split(s) ==
    LET nls == {i \in 1..Len(s) : s[i] = NL}
    IN IF nls = {} THEN <<s>>
       ELSE LET i == MinOf(nls)
            IN <<SubSeq(s, 1, i - 1)>> \o split(SubSeq(s, i + 1, Len(s)))

\* A line yields a decision, left in place: the loop goes on to the next read.
onDecisionKeepReading(d) ==
    [returned |-> FALSE, value |-> d, aborted |-> FALSE, parsed |-> 1]

\* if (decision !== null) { controller.abort(); return decision; }
onDecision(d) ==
    [returned |-> TRUE, value |-> d, aborted |-> TRUE, parsed |-> 1]

\* The for loop over the complete lines of one read, from line i on: whether
\* a line returned, with what, and the number of data events that were parsed.
RECURSIVE scanLines(_, _)
scanLines(lines, i) ==
    IF i > Len(lines)
    THEN [returned |-> FALSE, value |-> NullDecision, aborted |-> FALSE, parsed |-> 0]
    ELSE LET line == lines[i]
             data == Tail(line)
             rest == scanLines(lines, i + 1)
         IN \* if (!trimmed.startsWith("data:")) continue
            IF line = <<>> \/ line[1] # Data THEN rest
            \* if (data === "[DONE]") return null
            ELSE IF data = <<Done>>
            THEN [returned |-> TRUE, value |-> NullDecision, aborted |-> FALSE,
                  parsed |-> 0]
            \* JSON.parse throws: continue
            ELSE IF Len(data) # 1 \/ data[1].a # "json" THEN rest
            ELSE LET d == extractDecision(Coalesce(data[1].delta,
                                            Coalesce(data[1].text, <<>>)))
                 IN IF d # NullDecision THEN onDecision(d)
                    ELSE [rest EXCEPT !.parsed = @ + 1]

\* The reader before its first read.
sseOpen(chunks) ==
    [chunks |-> chunks, pos |-> 0, buffer |-> <<>>, pc |-> "reading",
     value |-> NullDecision, aborted |-> FALSE, parsed |-> 0]

\* One iteration of the while loop: one reader.read() and the lines it
\* completes.
sseRead(s) ==
    IF s.pos = Len(s.chunks)
    \* if (done) break; return null
    THEN [s EXCEPT !.pc = "returned"]
    ELSE LET buf == s.buffer \o s.chunks[s.pos + 1]
             pieces == split(buf)
             r == scanLines(SubSeq(pieces, 1, Len(pieces) - 1), 1)
         IN [s EXCEPT !.pos = @ + 1,
                      !.buffer = pieces[Len(pieces)],
                      !.pc = IF r.returned THEN "returned" ELSE "reading",
                      !.value = r.value,
                      !.aborted = r.aborted,
                      !.parsed = @ + r.parsed]

RECURSIVE sseRun(_)
sseRun(s) == IF s.pc = "returned" THEN s ELSE sseRun(sseRead(s))

readDecisionFromSse(chunks) == sseRun(sseOpen(chunks)).value

----------------------------------------------------------------------------
\* classifier.js: runClassifier, attemptClassification, classifyRequest

\* Floor of the timeout of the retry after a timeout.
RetryTimeoutFloor == 8000

Flatten(chunks) ==
    LET RECURSIVE cat(_)
        cat(i) == IF i > Len(chunks) THEN <<>> ELSE chunks[i] \o cat(i + 1)
    IN cat(1)

\* One HTTP call to the classifier endpoint that ends in outcome o: the
\* decision it returns (NullDecision for none) or the error it throws.
runClassifier(o, stream) ==
    CASE o.kind = "abort" -> [ok |-> FALSE, decision |-> NullDecision, err |-> AbortError]
      [] o.kind = "network" -> [ok |-> FALSE, decision |-> NullDecision, err |-> FetchFailed]
      [] o.kind = "status" ->
           \* if (!res.ok)
           IF isModelLoadingMessage(o.text)
           THEN [ok |-> FALSE, decision |-> NullDecision,
                 err |-> ModelLoadingError(o.status, o.text)]
           ELSE [ok |-> FALSE, decision |-> NullDecision,
                 err |-> ClassifierError(o.status, o.text)]
      [] OTHER ->
           IF stream
           THEN [ok |-> TRUE, decision |-> readDecisionFromSse(o.chunks), err |-> NoError]
           ELSE LET body == Flatten(o.chunks)
                IN \* res.json() rejects a body that is not one JSON document
                   IF Len(body) # 1 \/ body[1].a # "json"
                   THEN [ok |-> FALSE, decision |-> NullDecision, err |-> SyntaxError]
                   ELSE [ok |-> TRUE,
                         decision |-> extractDecision(
                             Coalesce(body[1].message, Coalesce(body[1].text, <<>>))),
                         err |-> NoError]

\* The second call of an attempt made in the mode of the first.
callStreamSame(pc, cfg) == cfg.forceStream

\* The transport mode of the call a classification attempt is waiting for.
\* "primary" and "fallback" are the two awaits of attemptClassification.
callStream(pc, cfg) == IF pc = "primary" THEN cfg.forceStream ELSE ~cfg.forceStream

\* attemptClassification resumed by the outcome of the call it awaits:
\* it returns a decision, goes on to its second call, or throws.
attemptClassification(pc, o, cfg) ==
    LET res == runClassifier(o, callStream(pc, cfg))
    IN IF ~res.ok THEN [kind |-> "throw", decision |-> NullDecision, err |-> res.err]
       ELSE IF res.decision # NullDecision
       THEN [kind |-> "return", decision |-> res.decision, err |-> NoError]
       ELSE IF pc = "primary"
       THEN [kind |-> "next", decision |-> NullDecision, err |-> NoError]
       ELSE [kind |-> "throw", decision |-> NullDecision, err |-> NoDecisionError]

\* The retry timeout without the floor.
retryTimeoutNoFloor(timeoutMs) == timeoutMs * 2

\* const retryTimeout = Math.max(currentConfig.timeoutMs * 2, 8000)
retryTimeout(timeoutMs) == Max(timeoutMs * 2, RetryTimeoutFloor)

\* classifyRequest up to its first await.
classifyStart(cfg) ==
    [pc |-> "primary", loadingRetries |-> 0, timeoutRetried |-> FALSE,
     timeoutMs |-> cfg.timeoutMs, decision |-> NullDecision, err |-> NoError,
     log |-> "none"]

\* classifyRequest without its timeoutRetried flag: every abort is retried.
classifyRequestEveryAbort(c, o, cfg) ==
    LET a == attemptClassification(c.pc, o, cfg)
    IN CASE a.kind = "return" ->
              [c EXCEPT !.pc = "returned", !.decision = a.decision, !.log = "decision"]
         [] a.kind = "next" ->
              [c EXCEPT !.pc = "fallback", !.log = "none"]
         [] OTHER ->
              IF isAbortError(a.err)
              THEN [c EXCEPT !.timeoutRetried = TRUE,
                             !.pc = "primary",
                             !.log = "classifier timeout, retrying once"]
              ELSE IF isModelLoadingError(a.err)
                      /\ c.loadingRetries < cfg.loadingMaxRetries
              THEN [c EXCEPT !.loadingRetries = @ + 1,
                             !.pc = "sleep",
                             !.log = "classifier model loading, retrying"]
              ELSE [c EXCEPT !.pc = "thrown", !.err = a.err, !.log = "none"]

\* classifyRequest resumed by the outcome of the call it awaits: the body of
\* the while loop, up to the next await, the return or the throw.
classifyRequest(c, o, cfg) ==
    LET a == attemptClassification(c.pc, o, cfg)
    IN CASE a.kind = "return" ->
              [c EXCEPT !.pc = "returned", !.decision = a.decision, !.log = "decision"]
         [] a.kind = "next" ->
              [c EXCEPT !.pc = "fallback", !.log = "none"]
         [] OTHER ->
              IF isAbortError(a.err) /\ ~c.timeoutRetried
              THEN [c EXCEPT !.timeoutMs = retryTimeout(c.timeoutMs),
                             !.timeoutRetried = TRUE,
                             !.pc = "primary",
                             !.log = "classifier timeout, retrying once"]
              ELSE IF isModelLoadingError(a.err)
                      /\ c.loadingRetries < cfg.loadingMaxRetries
              THEN [c EXCEPT !.loadingRetries = @ + 1,
                             !.pc = "sleep",
                             !.log = "classifier model loading, retrying"]
              ELSE [c EXCEPT !.pc = "thrown", !.err = a.err, !.log = "none"]

\* await sleep(delay) ends; continue
classifyWake(c) == [c EXCEPT !.pc = "primary", !.log = "none"]

----------------------------------------------------------------------------
\* The configuration: config.classifier and config.cache, frozen at start.

ClassifierConfigs ==
    [classifierEnabled : {TRUE}, cacheEnabled : {TRUE}, backend : {"memory"},
     forceStream : BOOLEAN, timeoutMs : {800, 5000},
     loadingMaxRetries : 0..MaxLoadingRetries, loadingRetryMs : {100, 1200}]

----------------------------------------------------------------------------
\* One classifyRequest call, stepped through its awaits.  Beside the
\* function's own variables (c) the state records what an observer of the
\* classifier endpoint and of the log sees: the outcome of every call
\* (trace, last), the calls of the current attempt (att), the warnings
\* logged and the delays slept.

OutcomeTag(o) ==
    CASE o.kind = "abort" -> "timeout"
      [] o.kind = "network" -> "network"
      [] o.kind = "ok" -> "ok"
      [] OTHER ->
           CASE o.text = BodyModelLoadingPleaseWait -> "model loading, please wait"
             [] o.text = BodyLoadingModelPleaseWait -> "loading model, please wait"
             [] o.text = BodyLoadingModelUpper -> "Loading model"
             [] o.text = BodyLoadingModelAborted -> "loading model, request aborted"
             [] o.text = BodyRequestAborted -> "request aborted"
             [] OTHER -> "internal error"

OutcomeTags ==
    {"timeout", "network", "ok", "model loading, please wait",
     "loading model, please wait", "Loading model",
     "loading model, request aborted", "request aborted", "internal error"}

ClsIdle ==
    [c |-> [classifyStart([timeoutMs |-> 0]) EXCEPT !.pc = "idle"],
     seen |-> [t \in OutcomeTags |-> 0], last |-> "none", att |-> <<>>,
     timeoutWarns |-> 0, loadingWarns |-> 0, sleeps |-> 0, slept |-> 0]

\* classifyRequest is called.
ClsBegin ==
    /\ cls.c.pc = "idle"
    /\ cls' = [cls EXCEPT !.c = classifyStart(config)]
    /\ UNCHANGED <<config, cache, cacheLost, req, sse, util, kv, buckets, px>>

\* The call classifyRequest awaits ends in outcome o.
ClsCall(o) ==
    /\ cls.c.pc \in {"primary", "fallback"}
    /\ LET stream == callStream(cls.c.pc, config)
           res == runClassifier(o, stream)
           c2 == classifyRequest(cls.c, o, config)
           call == [stream |-> stream, ok |-> res.ok, decision |-> res.decision]
       IN cls' = [cls EXCEPT
                    !.c = c2,
                    !.seen[OutcomeTag(o)] = @ + 1,
                    !.last = OutcomeTag(o),
                    !.att = IF cls.c.pc = "primary" THEN <<call>> ELSE Append(@, call),
                    !.timeoutWarns =
                        IF c2.log = "classifier timeout, retrying once" THEN @ + 1 ELSE @,
                    !.loadingWarns =
                        IF c2.log = "classifier model loading, retrying" THEN @ + 1 ELSE @]
    /\ UNCHANGED <<config, cache, cacheLost, req, sse, util, kv, buckets, px>>

\* The delay before a model-loading retry elapses.
ClsSleep ==
    /\ cls.c.pc = "sleep"
    /\ cls' = [cls EXCEPT !.c = classifyWake(cls.c),
                          !.last = "delay",
                          !.sleeps = @ + 1,
                          !.slept = @ + config.loadingRetryMs]
    /\ UNCHANGED <<config, cache, cacheLost, req, sse, util, kv, buckets, px>>

----------------------------------------------------------------------------
\* One readDecisionFromSse call, stepped through its reads.

SseIdle == [sseOpen(<<>>) EXCEPT !.pc = "idle"]

\* await reader.read() resolves, and the lines it completes are scanned.
SseRead ==
    /\ sse.pc = "reading"
    /\ sse' = sseRead(sse)
    /\ UNCHANGED <<config, cache, cacheLost, req, cls, util, kv, buckets, px>>

\* The timer of runClassifier aborts the connection while a read is pending:
\* reader.read() rejects.
SseTimeout ==
    /\ sse.pc = "reading"
    /\ sse' = [sse EXCEPT !.pc = "thrown", !.aborted = TRUE]
    /\ UNCHANGED <<config, cache, cacheLost, req, cls, util, kv, buckets, px>>

----------------------------------------------------------------------------
\* utils.js: hashPayload

\* A field that `||` replaces by its default.
Falsy(v) == v \in {"undefined", "null", ""}
OrElse(v, d) == IF Falsy(v) THEN d ELSE v

\* The inbound payloads: two that differ only in model, stream and
\* temperature, one with other messages, one with tools, one without messages.
Payloads ==
    { [messages |-> "hello", tools |-> "undefined", tool_choice |-> "undefined",
       response_format |-> "undefined", model |-> "gpt-4o", stream |-> FALSE,
       temperature |-> 0],
      [messages |-> "hello", tools |-> "undefined", tool_choice |-> "undefined",
       response_format |-> "undefined", model |-> "o3", stream |-> TRUE,
       temperature |-> 1],
      [messages |-> "prove it", tools |-> "undefined", tool_choice |-> "",
       response_format |-> "undefined", model |-> "gpt-4o", stream |-> FALSE,
       temperature |-> 0],
      [messages |-> "undefined", tools |-> "undefined", tool_choice |-> "undefined",
       response_format |-> "undefined", model |-> "gpt-4o", stream |-> FALSE,
       temperature |-> 0] }

NoPayload ==
    [messages |-> "undefined", tools |-> "undefined", tool_choice |-> "undefined",
     response_format |-> "undefined", model |-> "undefined", stream |-> FALSE,
     temperature |-> 0]

\* The digest taken over the model name as well.
hashPayloadWithModel(p) ==
    <<OrElse(p.messages, "[]"), OrElse(p.tools, "null"),
      OrElse(p.tool_choice, "null"), OrElse(p.response_format, "null"), p.model>>

\* The SHA-256 digest is taken to be injective on its input, the JSON text of
\* the four routing-relevant fields.
hashPayload(p) ==
    <<OrElse(p.messages, "[]"), OrElse(p.tools, "null"),
      OrElse(p.tool_choice, "null"), OrElse(p.response_format, "null")>>

Hashes == {hashPayload(p) : p \in Payloads}
NoHash == <<"", "", "", "">>

----------------------------------------------------------------------------
\* cache.js: the backend behind cache.get / cache.set

CacheEmpty == [h \in Hashes |-> "null"]

\* cache.set that stores nothing.
cacheSetNothing(c, key, value) == c

\* MemoryCache.set / RedisCache.set
cacheSet(c, key, value) == [c EXCEPT ![key] = value]

\* MemoryCache.get / RedisCache.get: value ?? null
cacheGet(c, key) == c[key]

----------------------------------------------------------------------------
\* The router: the POST /v1/chat/completions handler

RouterConfigs ==
    [classifierEnabled : BOOLEAN, cacheEnabled : BOOLEAN,
     backend : {"memory", "redis"},
     forceStream : {TRUE}, timeoutMs : {800},
     loadingMaxRetries : {2}, loadingRetryMs : {1200}]

\* Every way classifyRequest can end under cfg: the states its loop reaches
\* against every sequence of outcomes of its calls.
classifyNext(S, cfg) ==
    { classifyWake(c) : c \in {x \in S : x.pc = "sleep"} } \cup
    { classifyRequest(c, o, cfg) :
        c \in {x \in S : x.pc \in {"primary", "fallback"}}, o \in Outcomes }

RECURSIVE classifyReach(_, _)
classifyReach(S, cfg) ==
    LET T == S \cup classifyNext(S, cfg)
    IN IF T = S THEN S ELSE classifyReach(T, cfg)

\* What the handler sees of an error it catches.
FailureKind(err) ==
    CASE err = AbortError -> "timeout"
      [] err = FetchFailed -> "network"
      [] err = SyntaxError -> "parse"
      [] err = NoDecisionError -> "no decision"
      [] err.code = "MODEL_LOADING" -> "model loading"
      [] OTHER -> "status"

\* The pairs <<cfg, end>>: classifyRequest can end in `end` under cfg.
classifyTable ==
    UNION { { <<cfg, [thrown |-> c.pc = "thrown", decision |-> c.decision,
                      failure |-> IF c.pc = "thrown" THEN FailureKind(c.err)
                                  ELSE "none"]>> :
              c \in {x \in classifyReach({classifyStart(cfg)}, cfg) :
                       x.pc \in {"returned", "thrown"}} } :
            cfg \in RouterConfigs }

classifyEnds(cfg) == {p[2] : p \in {q \in classifyTable : q[1] = cfg}}

\* The cached string read as a one-based tier number.
NumberOneBased(str) ==
    CASE str = "0" -> 1 [] str = "1" -> 2 [] str = "2" -> 3 [] str = "3" -> 3
      [] OTHER -> NaN

\* Number(cached)
Number(str) ==
    CASE str = "0" -> 0 [] str = "1" -> 1 [] str = "2" -> 2 [] str = "3" -> 3
      [] OTHER -> NaN

\* String(decision)
String(d) ==
    CASE d = 0 -> "0" [] d = 1 -> "1" [] d = 2 -> "2" [] d = 3 -> "3"
      [] d = NaN -> "NaN"
      [] OTHER -> "null"

NoResponse == [status |-> 0, error |-> "none", decision |-> "none", upstream |-> "none"]

\* No adapter has been called for the request.
NoUpstream == [t |-> "none"]

ReqInit ==
    [pc |-> "idle", payload |-> NoPayload, hash |-> NoHash,
     decision |-> NullDecision, warned |-> FALSE, route |-> "none",
     response |-> NoResponse,
     \* the descriptor handed to the adapter
     upstream |-> NoUpstream,
     \* what an observer records of the request
     cached |-> "null", classified |-> "no", failure |-> "none",
     cacheError |-> FALSE, events |-> <<>>, overlap |-> {}]

\* if (config.classifier.enabled), with the test left out.
classifierAlwaysEnabled(cfg) == TRUE

\* if (config.classifier.enabled)
classifierEnabled(cfg) == cfg.classifierEnabled

\* The handler starting from decision 0 when the classifier is disabled.
receiveDisabledCheap(rq, p, cfg) ==
    IF Falsy(p.messages)
    THEN [rq EXCEPT !.pc = "done", !.payload = p,
                    !.response = [status |-> 400, error |-> "invalid_request",
                                  decision |-> "none", upstream |-> "none"]]
    ELSE IF ~classifierEnabled(cfg)
    THEN [rq EXCEPT !.pc = "dispatch", !.payload = p, !.decision = 0]
    ELSE [rq EXCEPT !.pc = IF cfg.cacheEnabled THEN "get" ELSE "classify",
                    !.payload = p, !.hash = hashPayload(p),
                    !.decision = NullDecision]

\* The handler with the test of payload.messages left out.
receiveNoValidation(rq, p, cfg) ==
    IF ~classifierEnabled(cfg)
    THEN [rq EXCEPT !.pc = "dispatch", !.payload = p, !.decision = 2]
    ELSE [rq EXCEPT !.pc = IF cfg.cacheEnabled THEN "get" ELSE "classify",
                    !.payload = p, !.hash = hashPayload(p),
                    !.decision = NullDecision]

\* The handler up to its first await: validation, the fixed decision when
\* the classifier is disabled, the fingerprint.
receive(rq, p, cfg) ==
    IF Falsy(p.messages)
    THEN [rq EXCEPT !.pc = "done", !.payload = p,
                    !.response = [status |-> 400, error |-> "invalid_request",
                                  decision |-> "none", upstream |-> "none"]]
    ELSE IF ~classifierEnabled(cfg)
    THEN [rq EXCEPT !.pc = "dispatch", !.payload = p, !.decision = 2]
    ELSE [rq EXCEPT !.pc = IF cfg.cacheEnabled THEN "get" ELSE "classify",
                    !.payload = p, !.hash = hashPayload(p),
                    !.decision = NullDecision]

\* The test before classifyRequest, taking decision 0 for a missing one.
needsClassifyFalsy(decision) == decision \in {NullDecision, NaN, 0}

\* if (decision === null || Number.isNaN(decision))
needsClassify(decision) == decision \in {NullDecision, NaN}

\* The handler after a lookup, storing what it read.
afterLookupStore(decision) ==
    IF needsClassify(decision) THEN "classify" ELSE "set"

\* Where the handler goes after the cache lookup.
afterLookup(decision) ==
    IF needsClassify(decision) THEN "classify" ELSE "dispatch"

\* cache.get resolved with value cached.
lookedUp(rq, cached) ==
    LET d == IF cached # "null" THEN Number(cached) ELSE rq.decision
    IN [rq EXCEPT !.decision = d, !.pc = afterLookup(d)]

\* An error thrown outside the handler's try block reaches the error handler.
internalError(rq) ==
    [rq EXCEPT !.pc = "done",
               !.response = [status |-> 500, error |-> "internal_error",
                             decision |-> "none", upstream |-> "none"]]

\* The catch block, rethrowing.
classifierFailedRethrow(rq) == internalError(rq)

\* The catch block, going on to store the fallback in the cache.
classifierFailedStore(rq) ==
    [rq EXCEPT !.decision = 2, !.warned = TRUE, !.pc = "set"]

\* catch (err): warn "classifier failed, falling back to frontier"; decision = 2
classifierFailed(rq) ==
    [rq EXCEPT !.decision = 2, !.warned = TRUE, !.pc = "dispatch"]

\* classifyRequest resolved with decision d.
classified(rq, d, cfg) ==
    [rq EXCEPT !.decision = d, !.pc = IF cfg.cacheEnabled THEN "set" ELSE "dispatch"]

\* The route taken from the decision with frontier for 2 only.
routeOfStrict(decision) ==
    CASE decision = 1 -> "medium" [] decision = 2 -> "frontier" [] OTHER -> "cheap"

\* let route = "frontier"; if (decision === 0) ...; if (decision === 1) ...
routeOf(decision) ==
    CASE decision = 0 -> "cheap" [] decision = 1 -> "medium" [] OTHER -> "frontier"

\* The request arrives with payload p.
Receive(r, p) ==
    /\ req[r].pc = "idle"
    /\ req' = [req EXCEPT ![r] = receive(req[r], p, config)]
    /\ UNCHANGED <<config, cache, cacheLost, cls, sse, util, kv, buckets, px>>

\* await cache.get(hash) resolves.
CacheGet(r) ==
    /\ req[r].pc = "get"
    /\ LET cached == cacheGet(cache, req[r].hash)
           rq == lookedUp(req[r], cached)
       IN req' = [req EXCEPT ![r] =
                    [rq EXCEPT !.cached = cached,
                               !.events = Append(@, "lookup"),
                               !.overlap =
                                   IF rq.pc = "classify"
                                   THEN {q \in 1..NReq : req[q].pc \in {"classify", "set"}}
                                   ELSE @]]
    /\ UNCHANGED <<config, cache, cacheLost, cls, sse, util, kv, buckets, px>>

\* await cache.get(hash) rejects: the remote store fails.
CacheGetFails(r) ==
    /\ req[r].pc = "get"
    /\ config.backend = "redis"
    /\ req' = [req EXCEPT ![r] =
                 [internalError(req[r]) EXCEPT !.cacheError = TRUE,
                                               !.events = Append(@, "lookup")]]
    /\ UNCHANGED <<config, cache, cacheLost, cls, sse, util, kv, buckets, px>>

\* await classifyRequest(...) resolves or rejects.
Classify(r, end) ==
    /\ req[r].pc = "classify"
    /\ end \in classifyEnds(config)
    /\ LET rq == IF end.thrown THEN classifierFailed(req[r])
                 ELSE classified(req[r], end.decision, config)
       IN req' = [req EXCEPT ![r] =
                    [rq EXCEPT !.classified = IF end.thrown THEN "thrown" ELSE "returned",
                               !.failure = end.failure,
                               !.events = Append(@, "classify")]]
    /\ UNCHANGED <<config, cache, cacheLost, cls, sse, util, kv, buckets, px>>

\* await cache.set(hash, String(decision)) resolves.
CacheSet(r) ==
    /\ req[r].pc = "set"
    /\ cache' = cacheSet(cache, req[r].hash, String(req[r].decision))
    /\ req' = [req EXCEPT ![r] = [@ EXCEPT !.pc = "dispatch",
                                           !.events = Append(@, "store")]]
    /\ UNCHANGED <<config, cacheLost, cls, sse, util, kv, buckets, px>>

\* await cache.set(...) rejects inside the try block: the catch block runs.
CacheSetFails(r) ==
    /\ req[r].pc = "set"
    /\ config.backend = "redis"
    /\ req' = [req EXCEPT ![r] =
                 [classifierFailed(req[r]) EXCEPT !.cacheError = TRUE,
                                                  !.events = Append(@, "store")]]
    /\ UNCHANGED <<config, cache, cacheLost, cls, sse, util, kv, buckets, px>>

\* The route is chosen, the upstream is config.upstreams[route] of the
\* configuration loaded at start-up (util.out.config), and the adapter
\* proxies the request; response.decision and response.upstream are the
\* values the adapter is called with.
Dispatch(r, status) ==
    /\ req[r].pc = "dispatch"
    /\ LET route == routeOf(req[r].decision)
       IN req' = [req EXCEPT ![r] =
                    [@ EXCEPT !.pc = "done",
                              !.route = route,
                              !.upstream = util.out.config.upstreams[route],
                              !.events = Append(@, "dispatch"),
                              !.response =
                                  [status |-> status,
                                   error |-> IF status = 200 THEN "none"
                                             ELSE "upstream_error",
                                   decision |-> String(req[r].decision),
                                   upstream |-> route]]]
    /\ UNCHANGED <<config, cache, cacheLost, cls, sse, util, kv, buckets, px>>

\* An entry's TTL runs out, or the LRU evicts it.
CacheExpire(h) ==
    /\ cache[h] # "null"
    /\ cache' = [cache EXCEPT ![h] = "null"]
    /\ cacheLost' = TRUE
    /\ UNCHANGED <<config, req, cls, sse, util, kv, buckets, px>>

----------------------------------------------------------------------------
\* utils.js: coerceContent, buildClassifierInput, truncate.
\* A JSON value is a record tagged with its type (t); an object lists its
\* keys in insertion order, which is the order JSON.stringify writes them.

JNull == [t |-> "null"]
JUndefined == [t |-> "undefined"]
JStr(s) == [t |-> "string", s |-> s]
JArr(items) == [t |-> "array", items |-> items]
JObj(keys, vals) == [t |-> "object", keys |-> keys, vals |-> vals]

\* obj[key]: undefined when the value is no object or lacks the key.
Field(obj, key) ==
    IF obj.t # "object" THEN JUndefined
    ELSE LET hits == {i \in 1..Len(obj.keys) : obj.keys[i] = key}
         IN IF hits = {} THEN JUndefined ELSE obj.vals[CHOOSE i \in hits : TRUE]

KeyType == <<"t", "y", "p", "e">>
KeyText == <<"t", "e", "x", "t">>
KeyInputText == <<"i", "n", "p", "u", "t", "_", "t", "e", "x", "t">>
KeyContent == <<"c", "o", "n", "t", "e", "n", "t">>
KeyRole == <<"r", "o", "l", "e">>
KeyName == <<"n", "a", "m", "e">>
RoleUser == <<"u", "s", "e", "r">>
RoleAssistant == <<"a", "s", "s", "i", "s", "t", "a", "n", "t">>
RoleSystem == <<"s", "y", "s", "t", "e", "m">>
TextNull == <<"n", "u", "l", "l">>
Quote == <<"\"">>
TruncatedMarker == <<"\n", "[", "T", "R", "U", "N", "C", "A", "T", "E", "D", "]">>

\* JSON.stringify of a value that holds no cycle: array items that are
\* undefined are written as null, object fields that are undefined are left
\* out.  The texts of the model hold no character that needs escaping.
RECURSIVE stringify(_), stringifyItems(_, _), stringifyFields(_, _, _)
stringify(v) ==
    CASE v.t = "string" -> Quote \o v.s \o Quote
      [] v.t = "array" -> <<"[">> \o stringifyItems(v.items, 1) \o <<"]">>
      [] v.t = "object" -> <<"{">> \o stringifyFields(v, 1, TRUE) \o <<"}">>
      [] OTHER -> TextNull

stringifyItems(items, i) ==
    IF i > Len(items) THEN <<>>
    ELSE (IF i > 1 THEN <<",">> ELSE <<>>)
         \o stringify(items[i]) \o stringifyItems(items, i + 1)

stringifyFields(obj, i, first) ==
    IF i > Len(obj.keys) THEN <<>>
    ELSE IF obj.vals[i].t = "undefined" THEN stringifyFields(obj, i + 1, first)
    ELSE (IF first THEN <<>> ELSE <<",">>)
         \o Quote \o obj.keys[i] \o Quote \o <<":">> \o stringify(obj.vals[i])
         \o stringifyFields(obj, i + 1, FALSE)

\* coerceContent
coerceContent(content) ==
    IF content.t \in {"null", "undefined"} THEN <<>>
    ELSE IF content.t = "string" THEN content.s
    ELSE stringify(content)

\* truncate
truncate(text, maxChars) ==
    IF text = <<>> \/ Len(text) <= maxChars THEN text
    ELSE SubSeq(text, 1, maxChars) \o TruncatedMarker

\* messages.map(m => ({ role: m.role, content: m.content }))
roleAndContent(messages) ==
    JArr([i \in 1..Len(messages) |->
             JObj(<<KeyRole, KeyContent>>,
                  <<Field(messages[i], KeyRole), Field(messages[i], KeyContent)>>)])

IsUser(m) == Field(m, KeyRole) = JStr(RoleUser)

\* The search for a user message running from the front.
firstUser(messages) ==
    LET users == {i \in 1..Len(messages) : IsUser(messages[i])}
    IN IF users = {} THEN 0 ELSE CHOOSE i \in users : \A j \in users : i <= j

\* [...messages].reverse().find(m => m.role === "user"): the index of the
\* message found, 0 for undefined.
lastUser(messages) ==
    LET users == {i \in 1..Len(messages) : IsUser(messages[i])}
    IN IF users = {} THEN 0 ELSE CHOOSE i \in users : \A j \in users : j <= i

\* buildClassifierInput; messages is payload.messages.
buildClassifierInput(payloadMessages, strategy, maxChars) ==
    LET messages == IF payloadMessages.t = "array" THEN payloadMessages.items ELSE <<>>
        found == lastUser(messages)
    IN IF strategy = "full_messages"
       THEN truncate(stringify(roleAndContent(messages)), maxChars)
       ELSE IF found # 0
       THEN truncate(coerceContent(Field(messages[found], KeyContent)), maxChars)
       ELSE truncate(stringify(roleAndContent(messages)), maxChars)

----------------------------------------------------------------------------
\* One call of a helper of utils.js: the arguments it is called with (in)
\* and, once it has returned (done), its result (out).

UtilIdle == [fn |-> "none", in |-> <<>>, out |-> <<>>, done |-> FALSE]

UtilCall(fn, in) == [fn |-> fn, in |-> in, out |-> <<>>, done |-> FALSE]

\* The payloads hashPayload is applied to.
UtilPayloads ==
    [messages : {"undefined", "hello", "prove it"},
     tools : {"undefined", "null", "[t]"},
     tool_choice : {"undefined", "auto"},
     response_format : {"undefined", "json"},
     model : {"gpt-4o", "o3"}, stream : BOOLEAN, temperature : {0, 1}]

\* Every text of at most n characters over the alphabet A.
RECURSIVE TextsUpTo(_, _)
TextsUpTo(A, n) ==
    IF n = 0 THEN {<<>>}
    ELSE LET shorter == TextsUpTo(A, n - 1)
         IN shorter \cup {Append(t, c) : t \in shorter, c \in A}

\* The texts extractDecision is applied to.
UtilTexts == TextsUpTo({"0", "1", "2", "3", "x"}, MaxText)

\* Every sequence of at most n elements of S.
RECURSIVE SeqsUpTo(_, _)
SeqsUpTo(S, n) ==
    IF n = 0 THEN {<<>>}
    ELSE LET shorter == SeqsUpTo(S, n - 1)
         IN shorter \cup {Append(q, x) : q \in shorter, x \in S}

\* Content parts as clients send them: a bare string, a text part, an
\* input_text part, a part wrapping content, a part wrapping parts, null.
TextPart == JObj(<<KeyType, KeyText>>, <<JStr(KeyText), JStr(<<"h", "i">>)>>)
UtilParts ==
    { JStr(<<"a">>),
      TextPart,
      JObj(<<KeyInputText>>, <<JStr(<<"b">>)>>),
      JObj(<<KeyContent>>, <<JStr(<<"c">>)>>),
      JObj(<<KeyContent>>, <<JArr(<<TextPart>>)>>),
      JNull }

\* The message contents coerceContent is applied to.
UtilContents ==
    { JNull, JUndefined, JStr(<<>>), JStr(<<"h", "i">>),
      JObj(<<KeyText>>, <<JStr(<<"x">>)>>) }
    \cup {JArr(parts) : parts \in SeqsUpTo(UtilParts, MaxParts)}

\* The messages of a payload: user messages of two lengths, one with its
\* keys in another order and a name, one with parts, and other roles.
Message(role, content) == JObj(<<KeyRole, KeyContent>>, <<JStr(role), content>>)
UtilMessages ==
    { Message(RoleUser, JStr(<<"h", "i">>)),
      Message(RoleUser, JStr(<<"h", "e", "l", "l", "o", "!">>)),
      Message(RoleAssistant, JStr(<<"o", "k">>)),
      JObj(<<KeyName, KeyContent, KeyRole>>,
           <<JStr(<<"n">>), JStr(<<"a">>), JStr(RoleUser)>>),
      Message(RoleUser, JArr(<<TextPart>>)),
      Message(RoleSystem, JNull) }

\* The arguments buildClassifierInput is applied to.
UtilInputs ==
    [messages : {JUndefined} \cup {JArr(ms) : ms \in SeqsUpTo(UtilMessages, MaxParts)},
     strategy : {"last_user", "full_messages", "other"},
     maxChars : {0, 1, 4, 8000}]

\* The calls made: hashPayload on two payloads, extractDecision on a text,
\* coerceContent on a message content, buildClassifierInput on a payload.
UtilCalls ==
    {UtilCall("hashPayload", <<p, q>>) : p, q \in UtilPayloads}
    \cup {UtilCall("extractDecision", t) : t \in UtilTexts}
    \cup {UtilCall("coerceContent", c) : c \in UtilContents}
    \cup {UtilCall("buildClassifierInput", a) : a \in UtilInputs}

\* hashPayload returns, for each of the two payloads.
UtilHash ==
    /\ util.fn = "hashPayload" /\ ~util.done
    /\ util' = [util EXCEPT !.out = <<hashPayload(util.in[1]), hashPayload(util.in[2])>>,
                            !.done = TRUE]
    /\ UNCHANGED <<config, cache, cacheLost, req, cls, sse, kv, buckets, px>>

\* extractDecision returns.
UtilExtract ==
    /\ util.fn = "extractDecision" /\ ~util.done
    /\ util' = [util EXCEPT !.out = extractDecision(util.in), !.done = TRUE]
    /\ UNCHANGED <<config, cache, cacheLost, req, cls, sse, kv, buckets, px>>

\* coerceContent returns.
UtilCoerce ==
    /\ util.fn = "coerceContent" /\ ~util.done
    /\ util' = [util EXCEPT !.out = coerceContent(util.in), !.done = TRUE]
    /\ UNCHANGED <<config, cache, cacheLost, req, cls, sse, kv, buckets, px>>

\* buildClassifierInput returns.
UtilBuild ==
    /\ util.fn = "buildClassifierInput" /\ ~util.done
    /\ util' = [util EXCEPT
                   !.out = buildClassifierInput(util.in.messages, util.in.strategy,
                                                util.in.maxChars),
                   !.done = TRUE]
    /\ UNCHANGED <<config, cache, cacheLost, req, cls, sse, kv, buckets, px>>

----------------------------------------------------------------------------
\* cache.js: one backend instance, from createDecisionCache on.  The LRU
\* of the in-process cache (lru-cache, constructed with max and ttl) keeps a
\* recency order, evicts the least recently used entry when a new key
\* arrives at capacity, and answers undefined for an entry older than ttl.
\* The remote store keeps an entry for ttlSec seconds (setEx).

CacheKeys == {"a", "b"}
CacheValues == {"0", "1"}

\* config.cache, and whether the remote store accepts the connection.
CacheConfigs ==
    [enabled : BOOLEAN, redisUrl : {"", "redis://kv"},
     ttlMs : {500, 1500}, maxEntries : {1, 2}]

NoEntry == [value |-> "null", at |-> 0]

\* this.ttlSec = Math.max(1, Math.floor(ttlMs / 1000))
ttlSec(ttlMs) == Max(1, ttlMs \div 1000)

\* A construction that keeps the remote store after a failed connection.
createDecisionCacheNoFallback(cfg, connects) ==
    IF ~cfg.enabled THEN [kind |-> "noop", log |-> <<>>]
    ELSE IF cfg.redisUrl # "" THEN [kind |-> "redis", log |-> <<>>]
    ELSE [kind |-> "memory", log |-> <<>>]

\* createDecisionCache: the backend it returns and what it logs.
createDecisionCache(cfg, connects) ==
    IF ~cfg.enabled THEN [kind |-> "noop", log |-> <<>>]
    ELSE IF cfg.redisUrl # "" /\ connects THEN [kind |-> "redis", log |-> <<>>]
    ELSE IF cfg.redisUrl # ""
    THEN [kind |-> "memory",
          log |-> <<"redis unavailable, falling back to memory cache">>]
    ELSE [kind |-> "memory", log |-> <<>>]

KvNew(cfg, connects) ==
    [pc |-> "new", cfg |-> cfg, connects |-> connects, kind |-> "none", log |-> <<>>,
     entries |-> [k \in CacheKeys |-> NoEntry], order |-> <<>>, now |-> 0,
     lastSet |-> [k \in CacheKeys |-> NoEntry], everSet |-> {},
     op |-> [name |-> "none", key |-> "", value |-> "null"]]

KvIdle == KvNew([enabled |-> FALSE, redisUrl |-> "", ttlMs |-> 500, maxEntries |-> 1], FALSE)

Without(order, k) == SelectSeq(order, LAMBDA x : x # k)

\* A set that leaves an entry already stored as it is.
kvSetKeepsOld(c, key, value) ==
    IF c.kind = "noop" \/ c.entries[key].value # "null" THEN c
    ELSE [c EXCEPT !.entries[key] = [value |-> value, at |-> c.now],
                   !.order = Append(Without(@, key), key)]

\* set(key, value) of the three backends.
kvSet(c, key, value) ==
    CASE c.kind = "noop" -> c
      [] c.kind = "redis" ->
           [c EXCEPT !.entries[key] = [value |-> value, at |-> c.now]]
      [] OTHER ->
           IF c.entries[key].value = "null" /\ Len(c.order) >= c.cfg.maxEntries
           THEN \* at capacity: the least recently used entry goes
                [c EXCEPT !.entries = [@ EXCEPT ![c.order[1]] = NoEntry,
                                               ![key] = [value |-> value, at |-> c.now]],
                          !.order = Append(Tail(@), key)]
           ELSE [c EXCEPT !.entries[key] = [value |-> value, at |-> c.now],
                          !.order = Append(Without(@, key), key)]

\* get(key) of the three backends: the instance after it and the value.
kvGet(c, key) ==
    LET e == c.entries[key]
    IN CASE c.kind = "noop" -> [c |-> c, value |-> "null"]
         [] c.kind = "redis" ->
              IF e.value # "null" /\ c.now - e.at < 1000 * ttlSec(c.cfg.ttlMs)
              THEN [c |-> c, value |-> e.value]
              ELSE [c |-> [c EXCEPT !.entries[key] = NoEntry], value |-> "null"]
         [] OTHER ->
              IF e.value = "null" THEN [c |-> c, value |-> "null"]
              ELSE IF c.now - e.at > c.cfg.ttlMs
              THEN [c |-> [c EXCEPT !.entries[key] = NoEntry,
                                    !.order = Without(@, key)],
                    value |-> "null"]
              ELSE [c |-> [c EXCEPT !.order = Append(Without(@, key), key)],
                    value |-> e.value]

\* const cache = await createDecisionCache(config.cache, app.log)
KvCreate ==
    /\ kv.pc = "new"
    /\ LET made == createDecisionCache(kv.cfg, kv.connects)
       IN kv' = [kv EXCEPT !.pc = "ready", !.kind = made.kind, !.log = made.log]
    /\ UNCHANGED <<config, cache, cacheLost, req, cls, sse, util, buckets, px>>

\* await cache.set(key, value) completes.
KvSet(key, value) ==
    /\ kv.pc = "ready"
    /\ kv' = [kvSet(kv, key, value) EXCEPT
                 !.lastSet[key] = [value |-> value, at |-> kv.now],
                 !.everSet = @ \cup {key},
                 !.op = [name |-> "set", key |-> key, value |-> value]]
    /\ UNCHANGED <<config, cache, cacheLost, req, cls, sse, util, buckets, px>>

\* await cache.get(key) completes.
KvGet(key) ==
    /\ kv.pc = "ready"
    /\ LET got == kvGet(kv, key)
       IN kv' = [got.c EXCEPT !.op = [name |-> "get", key |-> key, value |-> got.value]]
    /\ UNCHANGED <<config, cache, cacheLost, req, cls, sse, util, buckets, px>>

\* 500 ms pass.
KvTick ==
    /\ kv.pc = "ready"
    /\ kv.now < 500 * MaxTicks
    /\ kv' = [kv EXCEPT !.now = @ + 500]
    /\ UNCHANGED <<config, cache, cacheLost, req, cls, sse, util, buckets, px>>

----------------------------------------------------------------------------
\* token_tracker.js: the usage buckets and recordUsage.

\* A field a usage object does not have (typeof is not "number").
Missing == -1

initBucket ==
    [promptTokens |-> 0, completionTokens |-> 0, totalTokens |-> 0,
     requests |-> 0, withUsage |-> 0]

BucketsInit == [b \in {"cheap", "medium", "frontier", "unknown"} |-> initBucket]

\* A usage object; present is FALSE for a reply without one.
Usage(pt, ct, tt, it, ot, ptc, ctc, ttc) ==
    [present |-> TRUE, prompt_tokens |-> pt, completion_tokens |-> ct,
     total_tokens |-> tt, input_tokens |-> it, output_tokens |-> ot,
     promptTokenCount |-> ptc, candidatesTokenCount |-> ctc, totalTokenCount |-> ttc]

NoUsage ==
    [Usage(Missing, Missing, Missing, Missing, Missing, Missing, Missing, Missing)
        EXCEPT !.present = FALSE]

\* x ?? 0
OrZero(x) == IF x = Missing THEN 0 ELSE x

\* normalizeUsage: ok is FALSE where the code returns null.
normalizeUsage(usage) ==
    LET norm(p, c, t) ==
            [ok |-> TRUE, prompt |-> OrZero(p), completion |-> OrZero(c),
             total |-> IF t = Missing THEN OrZero(p) + OrZero(c) ELSE t]
    IN IF ~usage.present THEN [ok |-> FALSE, prompt |-> 0, completion |-> 0, total |-> 0]
       ELSE IF usage.prompt_tokens # Missing \/ usage.completion_tokens # Missing
               \/ usage.total_tokens # Missing
       THEN norm(usage.prompt_tokens, usage.completion_tokens, usage.total_tokens)
       ELSE IF usage.input_tokens # Missing \/ usage.output_tokens # Missing
               \/ usage.total_tokens # Missing
       THEN norm(usage.input_tokens, usage.output_tokens, usage.total_tokens)
       ELSE IF usage.promptTokenCount # Missing \/ usage.candidatesTokenCount # Missing
               \/ usage.totalTokenCount # Missing
       THEN norm(usage.promptTokenCount, usage.candidatesTokenCount, usage.totalTokenCount)
       ELSE [ok |-> FALSE, prompt |-> 0, completion |-> 0, total |-> 0]

\* pickBucket with frontier for a route it does not know.
pickBucketFrontier(route) ==
    IF route \in {"medium", "frontier", "cheap"} THEN route ELSE "frontier"

pickBucket(route) ==
    IF route \in {"medium", "frontier", "cheap"} THEN route ELSE "unknown"

\* recordUsage adding to the counts read before any other call had written.
recordUsageLost(b, route, usage) ==
    LET name == pickBucket(route)
        normalized == normalizeUsage(usage)
        stale == BucketsInit[name]
    IN IF ~normalized.ok THEN [b EXCEPT ![name].requests = stale.requests + 1]
       ELSE [b EXCEPT ![name].requests = stale.requests + 1,
                      ![name].withUsage = stale.withUsage + 1,
                      ![name].promptTokens = stale.promptTokens + normalized.prompt,
                      ![name].completionTokens =
                          stale.completionTokens + normalized.completion,
                      ![name].totalTokens = stale.totalTokens + normalized.total]

\* recordUsage({ route, upstream, usage })
recordUsage(b, route, usage) ==
    LET name == pickBucket(route)
        normalized == normalizeUsage(usage)
    IN IF ~normalized.ok THEN [b EXCEPT ![name].requests = @ + 1]
       ELSE [b EXCEPT ![name].requests = @ + 1,
                      ![name].withUsage = @ + 1,
                      ![name].promptTokens = @ + normalized.prompt,
                      ![name].completionTokens = @ + normalized.completion,
                      ![name].totalTokens = @ + normalized.total]

\* recordUsage called once for each usage object of calls, in order.
RECURSIVE recordAll(_, _, _)
recordAll(b, route, calls) ==
    IF calls = <<>> THEN b
    ELSE recordAll(recordUsage(b, route, Head(calls)), route, Tail(calls))

----------------------------------------------------------------------------
\* The provider adapters, as far as usage goes: for one request, the usage
\* objects an adapter hands to recordUsage, given the upstream's reply.

Adapters == {"openai", "anthropic", "gemini", "cohere", "azure_openai"}

\* Usage objects upstreams report, at the place the adapter looks for them
\* (usage, message.usage, usageMetadata, meta.tokens): the three schemas,
\* with and without a total, an object of another shape, and none.
UsageObjects ==
    { Usage(5, 3, 8, Missing, Missing, Missing, Missing, Missing),
      Usage(5, 3, Missing, Missing, Missing, Missing, Missing, Missing),
      Usage(Missing, Missing, Missing, 5, 0, Missing, Missing, Missing),
      Usage(Missing, Missing, 6, 4, 2, Missing, Missing, Missing),
      Usage(Missing, Missing, Missing, Missing, Missing, 7, 1, 8),
      Usage(Missing, Missing, Missing, Missing, Missing, Missing, Missing, Missing),
      NoUsage }

\* The data events of a streamed reply, in the upstream's own format: start
\* is TRUE for an event of type message_start, text for an event that
\* carries a non-empty piece of the answer, stop for the event that ends the
\* answer; an event that does not parse carries nothing.
StreamEvents ==
    { [start |-> FALSE, usage |-> NoUsage, text |-> FALSE, stop |-> FALSE],
      [start |-> TRUE, text |-> FALSE, stop |-> FALSE,
       usage |-> Usage(Missing, Missing, Missing, 5, 0, Missing, Missing, Missing)],
      [start |-> FALSE, text |-> FALSE, stop |-> FALSE,
       usage |-> Usage(5, 3, 8, Missing, Missing, Missing, Missing, Missing)],
      [start |-> TRUE, usage |-> NoUsage, text |-> FALSE, stop |-> FALSE],
      [start |-> FALSE, usage |-> NoUsage, text |-> TRUE, stop |-> FALSE],
      [start |-> FALSE, usage |-> NoUsage, text |-> FALSE, stop |-> TRUE] }

\* A request that got no reply of kind ok or error: the fetch failed
\* (network), the adapter's timer aborted it (timeout), or the adapter
\* returned before it called the upstream (none).
NoReply(kind) ==
    [kind |-> kind, json |-> FALSE, usage |-> NoUsage, events |-> <<>>,
     doneLine |-> FALSE]

\* What the upstream answers: the fetch fails, or a status that is OK or
\* not, with a JSON or a text body, holding a usage object (buffered) or a
\* sequence of events, closed by a "data: [DONE]" line or not (streamed).
Replies ==
    { NoReply("network") }
    \cup { [kind |-> k, json |-> TRUE, usage |-> u, events |-> <<>>, doneLine |-> FALSE] :
              k \in {"ok", "error"}, u \in UsageObjects }
    \cup { [kind |-> "ok", json |-> FALSE, usage |-> NoUsage, events |-> ev,
            doneLine |-> d] :
              ev \in SeqsUpTo(StreamEvents, MaxParts), d \in BOOLEAN }

\* The loop without usageRecorded: every event that satisfies the test.
everyUsage(events, needsStart) ==
    LET F[i \in 0..Len(events)] ==
            IF i = 0 THEN <<>>
            ELSE IF events[i].usage.present /\ (needsStart => events[i].start)
            THEN Append(F[i - 1], events[i].usage)
            ELSE F[i - 1]
    IN F[Len(events)]

\* The first event of a stream that satisfies the adapter's test, as a
\* sequence of at most one usage object: usageRecorded stops the search.
firstUsage(events, needsStart) ==
    LET hits == {i \in 1..Len(events) :
                    events[i].usage.present /\ (needsStart => events[i].start)}
    IN IF hits = {} THEN <<>>
       ELSE <<events[CHOOSE i \in hits : \A j \in hits : i <= j].usage>>

\* The usage objects the adapter passes to recordUsage for one request.
usageCalls(adapter, stream, reply) ==
    CASE reply.kind \in {"network", "timeout", "none"} -> <<>>
      [] adapter = "azure_openai" -> <<>>
      [] adapter = "openai" ->
           IF stream THEN firstUsage(reply.events, FALSE)
           ELSE IF reply.json /\ reply.usage.present THEN <<reply.usage>>
           ELSE <<>>
      [] OTHER ->
           \* anthropic, gemini, cohere: if (!res.ok) ... return reply
           IF reply.kind # "ok" THEN <<>>
           ELSE IF stream THEN firstUsage(reply.events, adapter = "anthropic")
           ELSE IF reply.json /\ reply.usage.present THEN <<reply.usage>>
           ELSE <<>>

\* getProviderAdapter's responder for a provider without an adapter.
NotSupported == "not_supported"

\* The adapters that arm a timer: controller.abort() after upstream.timeoutMs.
HasTimer(adapter) == adapter \in {"openai", "azure_openai"}

\* The answer the client gets: status and error, the two routing headers
\* as given to reply.header ("none" when it was not called), whether the
\* reply was hijacked to be written piece by piece, and the pieces written.
PxResponse(status, error, decision, upstream, hijacked, written) ==
    [status |-> status, error |-> error, decision |-> decision,
     upstream |-> upstream, hijacked |-> hijacked, written |-> written]

PxNoResponse == PxResponse(0, "none", "none", "none", FALSE, <<>>)

\* The adapter's returns before it calls the upstream; status 0 if it goes on.
earlyResponse(adapter, named) ==
    CASE adapter = NotSupported ->
           PxResponse(501, "provider_not_supported", "none", "none", FALSE, <<>>)
      [] adapter = "gemini" /\ ~named ->
           PxResponse(400, "missing_model", "none", "none", FALSE, <<>>)
      [] adapter = "azure_openai" /\ ~named ->
           PxResponse(400, "missing_deployment", "none", "none", FALSE, <<>>)
      [] OTHER -> PxNoResponse

\* for await (const chunk of upstreamRes.body) reply.raw.write(chunk): the
\* body goes out as it came in.
relay(reply) ==
    IF reply.json THEN <<"body">>
    ELSE [i \in 1..Len(reply.events) |->
            IF reply.events[i].text THEN "content"
            ELSE IF reply.events[i].stop THEN "stop" ELSE "other"]
         \o (IF reply.doneLine THEN <<"done">> ELSE <<>>)

\* writeOpenAiDone: the [DONE] line, then the end of the response.
writeOpenAiDone == <<"done">>

\* The translating adapters' loop over readSse: writeOpenAiChunk for each
\* event that carries text, then writeOpenAiDone.
translate(reply) ==
    LET chunk(e) == IF e.text THEN <<"content">> ELSE <<>>
        F[i \in 0..Len(reply.events)] ==
            IF i = 0 THEN <<>> ELSE F[i - 1] \o chunk(reply.events[i])
    IN F[Len(reply.events)] \o writeOpenAiDone

\* The status the upstream answers with.
UpstreamStatus(reply) == IF reply.kind = "ok" THEN 200 ELSE 503

\* The answer of an adapter whose fetch has settled, or whose timer fired.
adapterResponse(adapter, stream, decision, route, reply) ==
    LET with(status, error, hijacked, written) ==
            PxResponse(status, error, String(decision), route, hijacked, written)
        bare(status, error) ==
            PxResponse(status, error, "none", "none", FALSE, <<>>)
        relayed == IF reply.kind = "ok" THEN "none" ELSE "relayed"
    IN IF HasTimer(adapter)
       THEN \* proxyOpenAiCompatible, proxyAzureOpenAi: try { fetch ... } catch
            IF reply.kind \in {"network", "timeout"} THEN bare(502, "upstream_error")
            ELSE IF stream THEN with(UpstreamStatus(reply), relayed, TRUE, relay(reply))
            ELSE with(UpstreamStatus(reply), relayed, FALSE, <<>>)
       ELSE \* proxyAnthropic, proxyGemini, proxyCohere: no try/catch; what
            \* is thrown reaches the error handler of the server
            IF reply.kind = "network" THEN bare(500, "internal_error")
            ELSE IF reply.kind # "ok"
            THEN with(UpstreamStatus(reply), "upstream_error", FALSE, <<>>)
            ELSE IF stream THEN with(200, "none", TRUE, translate(reply))
            ELSE IF reply.json THEN with(200, "none", FALSE, <<>>)
            ELSE with(500, "internal_error", FALSE, <<>>)

PxIdle ==
    [pc |-> "idle", adapter |-> "none", stream |-> FALSE, decision |-> 2,
     route |-> "none", named |-> TRUE, late |-> FALSE,
     reply |-> NoReply("none"), response |-> PxNoResponse,
     calls |-> 0, before |-> BucketsInit, served |-> 0]

\* The handler picks the route of the decision and calls the adapter of
\* its upstream; named tells whether the upstream or the payload names a
\* model (for Azure: a deployment or a model).
Proxy(adapter, stream, decision, named) ==
    /\ px.pc \in {"idle", "done"}
    /\ px.served < MaxProxied
    /\ LET early == earlyResponse(adapter, named)
           call == [px EXCEPT !.adapter = adapter, !.stream = stream,
                              !.decision = decision, !.route = routeOf(decision),
                              !.named = named, !.late = FALSE,
                              !.reply = NoReply("none"), !.response = PxNoResponse,
                              !.calls = 0, !.before = buckets]
       IN px' = IF early.status = 0 THEN [call EXCEPT !.pc = "fetch"]
                ELSE [call EXCEPT !.pc = "done", !.response = early,
                                  !.served = @ + 1]
    /\ UNCHANGED <<config, cache, cacheLost, req, cls, sse, util, kv, buckets>>

\* A streamed request is answered by a stream of events, a buffered one
\* by a single body; an error answer is a JSON body in both modes.
Fits(stream, reply) ==
    reply.kind # "ok"
    \/ (IF stream THEN ~reply.json ELSE reply.events = <<>> /\ ~reply.doneLine)

\* The upstream answers and the adapter runs to its end.
ProxyReply(reply) ==
    /\ px.pc = "fetch"
    /\ Fits(px.stream, reply)
    /\ LET calls == usageCalls(px.adapter, px.stream, reply)
       IN /\ buckets' = recordAll(buckets, px.route, calls)
          /\ px' = [px EXCEPT !.pc = "done", !.reply = reply, !.calls = Len(calls),
                              !.response = adapterResponse(px.adapter, px.stream,
                                                           px.decision, px.route, reply),
                              !.served = @ + 1]
    /\ UNCHANGED <<config, cache, cacheLost, req, cls, sse, util, kv>>

\* upstream.timeoutMs passes before the upstream has answered: an adapter
\* with a timer aborts its fetch, the others go on waiting.
ProxyTimeout ==
    /\ px.pc = "fetch"
    /\ ~px.late
    /\ px' = IF HasTimer(px.adapter)
             THEN [px EXCEPT !.pc = "done", !.late = TRUE,
                             !.reply = NoReply("timeout"),
                             !.response = adapterResponse(px.adapter, px.stream,
                                                          px.decision, px.route,
                                                          NoReply("timeout")),
                             !.served = @ + 1]
             ELSE [px EXCEPT !.late = TRUE]
    /\ UNCHANGED <<config, cache, cacheLost, req, cls, sse, util, kv, buckets>>

----------------------------------------------------------------------------
\* providers/index.js: the adapter of an upstream.

\* String.prototype.startsWith
startsWith(s, p) == Len(s) >= Len(p) /\ SubSeq(s, 1, Len(p)) = p

\* The host and key patterns of detectProvider.
PatAnthropic == <<"a", "n", "t", "h", "r", "o", "p", "i", "c", ".", "c", "o", "m">>
PatGemini == <<"g", "e", "n", "e", "r", "a", "t", "i", "v", "e", "l", "a", "n", "g", "u", "a", "g", "e", ".", "g", "o", "o", "g", "l", "e", "a", "p", "i", "s", ".", "c", "o", "m">>
PatCohere == <<"a", "p", "i", ".", "c", "o", "h", "e", "r", "e", ".", "a", "i">>
PatAzure == <<"o", "p", "e", "n", "a", "i", ".", "a", "z", "u", "r", "e", ".", "c", "o", "m">>
PatMistral == <<"a", "p", "i", ".", "m", "i", "s", "t", "r", "a", "l", ".", "a", "i">>
PatGroq == <<"a", "p", "i", ".", "g", "r", "o", "q", ".", "c", "o", "m">>
PatTogether == <<"a", "p", "i", ".", "t", "o", "g", "e", "t", "h", "e", "r", ".", "x", "y", "z">>
PatPerplexity == <<"a", "p", "i", ".", "p", "e", "r", "p", "l", "e", "x", "i", "t", "y", ".", "a", "i">>
PatOpenRouter == <<"o", "p", "e", "n", "r", "o", "u", "t", "e", "r", ".", "a", "i">>
PatOpenAi == <<"a", "p", "i", ".", "o", "p", "e", "n", "a", "i", ".", "c", "o", "m">>
PrefixSkAnt == <<"s", "k", "-", "a", "n", "t", "-">>
PrefixAIza == <<"A", "I", "z", "a">>
PrefixCohere == <<"c", "o", "h", "e", "r", "e">>

\* const adapters = new Map([...]): the adapter registered for a provider
\* tag; "openai" stands for proxyOpenAiCompatible.
adapters ==
    [tag \in {"openai_compatible", "openrouter", "openai", "mistral", "groq",
              "together", "perplexity"} |-> "openai"]
    @@ [tag \in {"anthropic", "gemini", "cohere", "azure_openai"} |-> tag]

\* A base URL: null, or a text that new URL() parses (and then has a host
\* name) or rejects.  The hosts of the model are written in lower case, as
\* URL.hostname returns them.
NoUrl == [t |-> "null", parses |-> FALSE, host |-> <<>>]
Url(host) == [t |-> "string", parses |-> TRUE, host |-> host]
BadUrl == [t |-> "string", parses |-> FALSE, host |-> <<>>]

\* safeHost(baseUrl)
safeHost(baseUrl) ==
    IF baseUrl.t = "null" \/ ~baseUrl.parses THEN <<>> ELSE baseUrl.host

\* The provider detectProvider infers from the key prefix alone.
byApiKey(apiKey) ==
    IF apiKey = <<>> THEN "null"
    ELSE IF startsWith(apiKey, PrefixSkAnt) THEN "anthropic"
    ELSE IF startsWith(apiKey, PrefixAIza) THEN "gemini"
    ELSE IF startsWith(toLowerCase(apiKey), PrefixCohere) THEN "cohere"
    ELSE "null"

\* The provider detectProvider infers from the host alone.
byHost(host) ==
    IF host = <<>> THEN "null"
    ELSE IF includes(host, PatAnthropic) THEN "anthropic"
    ELSE IF includes(host, PatGemini) THEN "gemini"
    ELSE IF includes(host, PatCohere) THEN "cohere"
    ELSE IF includes(host, PatAzure) THEN "azure_openai"
    ELSE IF includes(host, PatMistral) THEN "mistral"
    ELSE IF includes(host, PatGroq) THEN "groq"
    ELSE IF includes(host, PatTogether) THEN "together"
    ELSE IF includes(host, PatPerplexity) THEN "perplexity"
    ELSE IF includes(host, PatOpenRouter) THEN "openrouter"
    ELSE IF includes(host, PatOpenAi) THEN "openai"
    ELSE "null"

\* detectProvider, asking the key before the host.
detectProviderKeyFirst(baseUrl, apiKey) ==
    IF byApiKey(apiKey) # "null" THEN byApiKey(apiKey) ELSE byHost(safeHost(baseUrl))

\* detectProvider(baseUrl, apiKey): "null" when nothing matches.
detectProvider(baseUrl, apiKey) ==
    IF byHost(safeHost(baseUrl)) # "null" THEN byHost(safeHost(baseUrl))
    ELSE byApiKey(apiKey)

\* resolveProvider(upstream)
resolveProvider(upstream) ==
    IF upstream.provider # "" /\ upstream.provider # "auto" THEN upstream.provider
    ELSE LET detected == detectProvider(upstream.baseUrl, upstream.apiKey)
         IN IF detected # "null" THEN detected ELSE "openai_compatible"

\* getProviderAdapter(upstream): the adapter, or the responder that
\* answers 501 provider_not_supported.
getProviderAdapter(upstream) ==
    LET provider == resolveProvider(upstream)
    IN IF provider \in DOMAIN adapters THEN adapters[provider] ELSE NotSupported

\* The upstreams getProviderAdapter is applied to.
UpstreamHosts ==
    { <<"a", "p", "i", ".", "a", "n", "t", "h", "r", "o", "p", "i", "c", ".", "c", "o", "m">>,
      <<"g", "e", "n", "e", "r", "a", "t", "i", "v", "e", "l", "a", "n", "g", "u", "a", "g", "e", ".", "g", "o", "o", "g", "l", "e", "a", "p", "i", "s", ".", "c", "o", "m">>,
      <<"a", "p", "i", ".", "c", "o", "h", "e", "r", "e", ".", "a", "i">>,
      <<"a", "p", "i", ".", "c", "o", "h", "e", "r", "e", ".", "c", "o", "m">>,
      <<"m", "e", ".", "o", "p", "e", "n", "a", "i", ".", "a", "z", "u", "r", "e", ".", "c", "o", "m">>,
      <<"a", "p", "i", ".", "m", "i", "s", "t", "r", "a", "l", ".", "a", "i">>,
      <<"a", "p", "i", ".", "g", "r", "o", "q", ".", "c", "o", "m">>,
      <<"a", "p", "i", ".", "t", "o", "g", "e", "t", "h", "e", "r", ".", "x", "y", "z">>,
      <<"a", "p", "i", ".", "p", "e", "r", "p", "l", "e", "x", "i", "t", "y", ".", "a", "i">>,
      <<"o", "p", "e", "n", "r", "o", "u", "t", "e", "r", ".", "a", "i">>,
      <<"a", "p", "i", ".", "o", "p", "e", "n", "a", "i", ".", "c", "o", "m">>,
      <<"l", "o", "c", "a", "l", "h", "o", "s", "t">>,
      <<"a", "n", "t", "h", "r", "o", "p", "i", "c", ".", "c", "o", "m", ".", "o", "p", "e", "n", "r", "o", "u", "t", "e", "r", ".", "a", "i">> }
UpstreamKeys ==
    { <<>>,
      <<"s", "k", "-", "a", "n", "t", "-", "1">>,
      <<"A", "I", "z", "a", "X">>,
      <<"C", "o", "h", "e", "r", "e", "-", "1">>,
      <<"s", "k", "-", "1">> }
Upstreams ==
    [provider : {"", "auto", "anthropic", "gemini", "cohere", "azure_openai",
                 "mistral", "openai_compatible", "bedrock"},
     baseUrl : {NoUrl, BadUrl} \cup {Url(h) : h \in UpstreamHosts},
     apiKey : UpstreamKeys]

----------------------------------------------------------------------------
\* config.js: loading the configuration.  Values are JSON values; an
\* environment variable is undefined or a string; an upstream is null or a
\* record of which the model keeps the base URL and the model.

KeyBaseUrl == <<"b", "a", "s", "e", "U", "r", "l">>
KeyModel == <<"m", "o", "d", "e", "l">>
KeyCheap == <<"c", "h", "e", "a", "p">>
KeyMedium == <<"m", "e", "d", "i", "u", "m">>
KeyFrontier == <<"f", "r", "o", "n", "t", "i", "e", "r">>

\* !v is false: of the values of the model, the non-empty strings and the
\* objects.
Truthy(v) == (v.t = "string" /\ v.s # <<>>) \/ v.t \in {"object", "upstream"}

\* v is null or undefined: what ?? and ?. test.
Nullish(v) == v.t \in {"null", "undefined"}

\* env(name, fallback)
env(value, fallback) ==
    IF value.t = "undefined" \/ value = JStr(<<>>) THEN fallback ELSE value

\* s.replace(/\/+$/, "")
RECURSIVE stripSlashes(_)
stripSlashes(s) ==
    IF s # <<>> /\ s[Len(s)] = "/" THEN stripSlashes(SubSeq(s, 1, Len(s) - 1)) ELSE s

\* normalizeBaseUrl(url)
normalizeBaseUrl(url) == IF ~Truthy(url) THEN url ELSE JStr(stripSlashes(url.s))

Upstream(baseUrl, model) == [t |-> "upstream", baseUrl |-> baseUrl, model |-> model]

\* normalizeUpstream(input, fallback)
normalizeUpstream(input, fallback) ==
    IF input.t = "null" THEN JNull
    ELSE IF ~Truthy(input) THEN fallback
    ELSE LET or(key, d) == IF Nullish(Field(input, key)) THEN d ELSE Field(input, key)
         IN Upstream(or(KeyBaseUrl, fallback.baseUrl), or(KeyModel, fallback.model))

\* buildUpstreams(): the tiers of the environment, overlaid by those of
\* upstreams.json (or UPSTREAMS_JSON) when there is one.
buildUpstreams(e) ==
    LET cheap == Upstream(env(e.CHEAP_BASE_URL, env(e.CLASSIFIER_BASE_URL, JNull)),
                          env(e.CHEAP_MODEL, JNull))
        medium == Upstream(env(e.MEDIUM_BASE_URL, JNull), JNull)
        frontier == Upstream(env(e.FRONTIER_BASE_URL, JNull), JNull)
    IN IF e.file.t = "object"
       THEN [cheap |-> normalizeUpstream(Field(e.file, KeyCheap), cheap),
             medium |-> normalizeUpstream(Field(e.file, KeyMedium), medium),
             frontier |-> normalizeUpstream(Field(e.file, KeyFrontier), frontier)]
       ELSE [cheap |-> cheap, medium |-> medium, frontier |-> frontier]

\* upstream?.baseUrl
baseUrlOf(upstream) == IF Nullish(upstream) THEN JUndefined ELSE upstream.baseUrl

\* The block that forces cheap's model, leaving cheap as it is.
forceCheapModelNever(classifier, cheap) == cheap

\* if (classifier.enabled && cheap?.baseUrl && classifier.baseUrl) { ... }:
\* cheap, with the classifier's model when the two base URLs are the same.
forceCheapModel(classifier, cheap) ==
    IF classifier.enabled /\ Truthy(baseUrlOf(cheap)) /\ Truthy(classifier.baseUrl)
    THEN LET cheapBase == normalizeBaseUrl(cheap.baseUrl)
             classifierBase == normalizeBaseUrl(classifier.baseUrl)
         IN IF Truthy(cheapBase) /\ Truthy(classifierBase) /\ cheapBase = classifierBase
            THEN [cheap EXCEPT !.model = classifier.model]
            ELSE cheap
    ELSE cheap

\* !upstream?.baseUrl, passing a tier that is null.
missingBaseUrlUnlessNull(upstream) ==
    ~Nullish(upstream) /\ ~Truthy(upstream.baseUrl)

\* !upstream?.baseUrl
missingBaseUrl(upstream) == ~Truthy(baseUrlOf(upstream))

\* The default of CLASSIFIER_MODEL, shortened.
DefaultClassifierModel == <<"c">>

\* The module body of config.js: ok is FALSE when it throws; config is
\* the object as it stood when the checks ran.
loadConfig(e) ==
    LET ups == buildUpstreams(e)
        classifier == [enabled |-> e.CLASSIFIER_ENABLED,
                       baseUrl |-> env(e.CLASSIFIER_BASE_URL, JNull),
                       model |-> env(e.CLASSIFIER_MODEL, JStr(DefaultClassifierModel))]
        upstreams == [ups EXCEPT !.cheap = forceCheapModel(classifier, ups.cheap)]
        result(ok, error) ==
            [ok |-> ok, error |-> error,
             config |-> [classifier |-> classifier, upstreams |-> upstreams]]
    IN IF classifier.enabled /\ ~Truthy(classifier.baseUrl)
       THEN result(FALSE, "CLASSIFIER_BASE_URL is required")
       ELSE IF missingBaseUrl(upstreams.frontier)
       THEN result(FALSE, "FRONTIER_BASE_URL is required")
       ELSE IF classifier.enabled /\ missingBaseUrl(upstreams.cheap)
       THEN result(FALSE, "CHEAP_BASE_URL is required")
       ELSE IF classifier.enabled /\ missingBaseUrl(upstreams.medium)
       THEN result(FALSE, "MEDIUM_BASE_URL is required")
       ELSE result(TRUE, "none")

\* The environments loadConfig is applied to: base URLs that differ only
\* in trailing slashes, one that is nothing but a slash, tiers left out of
\* the file, set to null or given as objects.
EnvUrls == {JUndefined, JStr(<<"a">>), JStr(<<"a", "/">>), JStr(<<"b">>), JStr(<<"/">>)}
EnvFileTiers ==
    { JUndefined, JNull,
      JObj(<<KeyBaseUrl>>, <<JStr(<<"a", "/", "/">>)>>),
      JObj(<<KeyBaseUrl, KeyModel>>, <<JStr(<<>>), JStr(<<"m">>)>>),
      JObj(<<KeyModel>>, <<JStr(<<"m">>)>>) }
EnvFiles ==
    { JNull }
    \cup { JObj(<<KeyCheap, KeyMedium, KeyFrontier>>, <<c, m, f>>) :
             c \in EnvFileTiers, m \in {JUndefined, JNull}, f \in {JUndefined, JNull} }
Envs ==
    [CLASSIFIER_ENABLED : BOOLEAN,
     CLASSIFIER_BASE_URL : EnvUrls,
     CLASSIFIER_MODEL : {JUndefined},
     CHEAP_BASE_URL : EnvUrls,
     CHEAP_MODEL : {JUndefined, JStr(<<"m">>), JStr(<<"c">>)},
     MEDIUM_BASE_URL : {JUndefined, JStr(<<"b">>)},
     FRONTIER_BASE_URL : {JUndefined, JStr(<<"b">>), JStr(<<>>)},
     file : EnvFiles]

----------------------------------------------------------------------------
\* The onRequest hook of the server, which runs before every route handler.

PrefixBearer == <<"B", "e", "a", "r", "e", "r", " ">>

\* auth.startsWith("Bearer ") ? auth.slice(7) : auth
tokenOf(auth) ==
    IF startsWith(auth, PrefixBearer) THEN SubSeq(auth, 8, Len(auth)) ELSE auth

\* The hook: 401 when it sends the unauthorized reply, 0 when it returns
\* without replying.  A request without the header has authorization "".
onRequest(routerApiKey, authorization) ==
    IF routerApiKey = <<>> THEN 0
    ELSE IF tokenOf(authorization) # routerApiKey THEN 401 ELSE 0

\* One request to an endpoint: the hook, then the endpoint's handler unless
\* the hook has replied.
request(routerApiKey, authorization) ==
    LET status == onRequest(routerApiKey, authorization)
    IN [status |-> status,
        error |-> IF status = 401 THEN "unauthorized" ELSE "none",
        handled |-> status = 0]

\* The requests the hook is applied to: no key and two keys configured,
\* against headers with and without the scheme, with the scheme twice or
\* in lower case, with another key, and none.
RouterApiKeys == {<<>>, <<"k">>, <<"B", "e", "a", "r", "e", "r", " ", "k">>}
Authorizations ==
    { <<>>, <<"k">>, <<"x">>, <<"B", "e", "a", "r", "e", "r", " ", "k">>, <<"B", "e", "a", "r", "e", "r", " ", "x">>, <<"b", "e", "a", "r", "e", "r", " ", "k">>, <<"B", "e", "a", "r", "e", "r", " ", "B", "e", "a", "r", "e", "r", " ", "k">>, <<"B", "e", "a", "r", "e", "r", " ", "k", " ">> }
Endpoints == {"/health", "/usage", "/dashboard", "/v1/chat/completions"}
Requests ==
    [routerApiKey : RouterApiKeys, authorization : Authorizations,
     endpoint : Endpoints]

\* The calls made at start-up and at the door: loadConfig on an
\* environment, getProviderAdapter on an upstream, a request through the hook.
SetupCalls ==
    {UtilCall("loadConfig", e) : e \in Envs}
    \cup {UtilCall("getProviderAdapter", u) : u \in Upstreams}
    \cup {UtilCall("request", r) : r \in Requests}

\* The module body of config.js has run.
UtilLoad ==
    /\ util.fn = "loadConfig" /\ ~util.done
    /\ util' = [util EXCEPT !.out = loadConfig(util.in), !.done = TRUE]
    /\ UNCHANGED <<config, cache, cacheLost, req, cls, sse, kv, buckets, px>>

\* getProviderAdapter returns.
UtilAdapter ==
    /\ util.fn = "getProviderAdapter" /\ ~util.done
    /\ util' = [util EXCEPT !.out = getProviderAdapter(util.in), !.done = TRUE]
    /\ UNCHANGED <<config, cache, cacheLost, req, cls, sse, kv, buckets, px>>

\* A request has passed the hook or was turned away by it.
UtilRequest ==
    /\ util.fn = "request" /\ ~util.done
    /\ util' = [util EXCEPT !.out = request(util.in.routerApiKey, util.in.authorization),
                            !.done = TRUE]
    /\ UNCHANGED <<config, cache, cacheLost, req, cls, sse, kv, buckets, px>>

----------------------------------------------------------------------------
\* Specifications.

ReqIdle == [r \in 1..NReq |-> ReqInit]

\* The module body of config.js has run on environment e.
Startup(e) == [fn |-> "loadConfig", in |-> e, out |-> loadConfig(e), done |-> TRUE]

\* An environment with every base URL set and no upstreams file.
RouterEnv(enabled) ==
    [CLASSIFIER_ENABLED |-> enabled,
     CLASSIFIER_BASE_URL |-> JStr(<<"a">>),
     CLASSIFIER_MODEL |-> JUndefined,
     CHEAP_BASE_URL |-> JStr(<<"a">>),
     CHEAP_MODEL |-> JStr(<<"m">>),
     MEDIUM_BASE_URL |-> JStr(<<"b">>),
     FRONTIER_BASE_URL |-> JStr(<<"b", "/">>),
     file |-> JNull]

\* The router handling NReq requests concurrently.
Init ==
    /\ config \in RouterConfigs
    /\ cache = CacheEmpty
    /\ cacheLost = FALSE
    /\ req = ReqIdle
    /\ cls = ClsIdle
    /\ sse = SseIdle
    /\ util = Startup(RouterEnv(config.classifierEnabled))
    /\ kv = KvIdle
    /\ buckets = BucketsInit
    /\ px = PxIdle

Next ==
    \/ \E r \in 1..NReq, p \in Payloads : Receive(r, p)
    \/ \E r \in 1..NReq : CacheGet(r)
    \/ \E r \in 1..NReq : CacheGetFails(r)
    \/ \E r \in 1..NReq, end \in classifyEnds(config) : Classify(r, end)
    \/ \E r \in 1..NReq : CacheSet(r)
    \/ \E r \in 1..NReq : CacheSetFails(r)
    \/ \E r \in 1..NReq, status \in {200, 502} : Dispatch(r, status)
    \/ \E h \in Hashes : CacheExpire(h)

Spec == Init /\ [][Next]_vars

\* classifyRequest alone, against every behaviour of the classifier endpoint.
InitClassify ==
    /\ config \in ClassifierConfigs
    /\ cache = CacheEmpty
    /\ cacheLost = FALSE
    /\ req = ReqIdle
    /\ cls = ClsIdle
    /\ sse = SseIdle
    /\ util = UtilIdle
    /\ kv = KvIdle
    /\ buckets = BucketsInit
    /\ px = PxIdle

NextClassify ==
    \/ ClsBegin
    \/ \E o \in Outcomes : ClsCall(o)
    \/ ClsSleep

SpecClassify == InitClassify /\ [][NextClassify]_vars

\* classifyRequest with every HTTP call ending (the endpoint answers, the
\* transport fails or the timer of runClassifier aborts it) and every
\* sleep elapsing, against one outcome of each kind: abort, transport
\* failure, model loading, another error, a digit or none in either format.
LiveOutcomes ==
    { [kind |-> "abort"], [kind |-> "network"],
      [kind |-> "status", status |-> 503, text |-> BodyLoadingModelPleaseWait],
      [kind |-> "status", status |-> 503, text |-> BodyInternalError],
      [kind |-> "ok", chunks |-> <<Ev(<<"0">>)>>],
      [kind |-> "ok", chunks |-> <<<<JMsg(<<"1">>)>>>>],
      [kind |-> "ok", chunks |-> <<<<JMsg(<<"3">>)>>>>] }

InitClassifyLive ==
    /\ InitClassify
    /\ config.timeoutMs = 800
    /\ config.loadingRetryMs = 1200

NextClassifyLive ==
    \/ ClsBegin
    \/ \E o \in LiveOutcomes : ClsCall(o)
    \/ ClsSleep

SpecClassifyLive ==
    /\ InitClassifyLive /\ [][NextClassifyLive]_vars
    /\ WF_vars(ClsBegin)
    /\ WF_vars(\E o \in LiveOutcomes : ClsCall(o))
    /\ WF_vars(ClsSleep)

\* readDecisionFromSse alone, on every stream cut into chunks.
InitSse ==
    /\ config \in {cf \in ClassifierConfigs :
                     /\ cf.timeoutMs = 800 /\ cf.loadingMaxRetries = MaxLoadingRetries
                     /\ cf.loadingRetryMs = 1200 /\ cf.forceStream}
    /\ cache = CacheEmpty
    /\ cacheLost = FALSE
    /\ req = ReqIdle
    /\ cls = ClsIdle
    /\ sse \in {sseOpen(ch) : ch \in SseStreams}
    /\ util = UtilIdle
    /\ kv = KvIdle
    /\ buckets = BucketsInit
    /\ px = PxIdle

NextSse ==
    \/ SseRead
    \/ SseTimeout

SpecSse == InitSse /\ [][NextSse]_vars

\* The helpers of utils.js alone, each applied to every input.
InitUtils ==
    /\ config \in {cf \in ClassifierConfigs :
                     /\ cf.timeoutMs = 800 /\ cf.loadingMaxRetries = MaxLoadingRetries
                     /\ cf.loadingRetryMs = 1200 /\ cf.forceStream}
    /\ cache = CacheEmpty
    /\ cacheLost = FALSE
    /\ req = ReqIdle
    /\ cls = ClsIdle
    /\ sse = SseIdle
    /\ util \in UtilCalls
    /\ kv = KvIdle
    /\ buckets = BucketsInit
    /\ px = PxIdle

NextUtils ==
    \/ UtilHash
    \/ UtilExtract
    \/ UtilCoerce
    \/ UtilBuild

SpecUtils == InitUtils /\ [][NextUtils]_vars

\* One cache backend instance under every sequence of gets, sets and ticks.
InitCache ==
    /\ config \in {cf \in ClassifierConfigs :
                     /\ cf.timeoutMs = 800 /\ cf.loadingMaxRetries = MaxLoadingRetries
                     /\ cf.loadingRetryMs = 1200 /\ cf.forceStream}
    /\ cache = CacheEmpty
    /\ cacheLost = FALSE
    /\ req = ReqIdle
    /\ cls = ClsIdle
    /\ sse = SseIdle
    /\ util = UtilIdle
    /\ kv \in {KvNew(cfg, connects) : cfg \in CacheConfigs, connects \in BOOLEAN}
    /\ buckets = BucketsInit
    /\ px = PxIdle

NextCache ==
    \/ KvCreate
    \/ \E key \in CacheKeys, value \in CacheValues : KvSet(key, value)
    \/ \E key \in CacheKeys : KvGet(key)
    \/ KvTick

SpecCache == InitCache /\ [][NextCache]_vars

\* Requests proxied one after the other by every adapter, against every
\* reply of the upstream.
InitProxy ==
    /\ config \in {cf \in ClassifierConfigs :
                     /\ cf.timeoutMs = 800 /\ cf.loadingMaxRetries = MaxLoadingRetries
                     /\ cf.loadingRetryMs = 1200 /\ cf.forceStream}
    /\ cache = CacheEmpty
    /\ cacheLost = FALSE
    /\ req = ReqIdle
    /\ cls = ClsIdle
    /\ sse = SseIdle
    /\ util = UtilIdle
    /\ kv = KvIdle
    /\ buckets = BucketsInit
    /\ px = PxIdle

NextProxy ==
    \/ \E adapter \in Adapters \cup {NotSupported}, stream \in BOOLEAN,
          decision \in Decisions, named \in BOOLEAN :
            Proxy(adapter, stream, decision, named)
    \/ \E reply \in Replies : ProxyReply(reply)
    \/ ProxyTimeout

SpecProxy == InitProxy /\ [][NextProxy]_vars

\* Start-up and admission: the configuration loaded from every environment,
\* the adapter chosen for every upstream, every request at the hook.
InitSetup ==
    /\ config \in {cf \in ClassifierConfigs :
                     /\ cf.timeoutMs = 800 /\ cf.loadingMaxRetries = MaxLoadingRetries
                     /\ cf.loadingRetryMs = 1200 /\ cf.forceStream}
    /\ cache = CacheEmpty
    /\ cacheLost = FALSE
    /\ req = ReqIdle
    /\ cls = ClsIdle
    /\ sse = SseIdle
    /\ util \in SetupCalls
    /\ kv = KvIdle
    /\ buckets = BucketsInit
    /\ px = PxIdle

NextSetup ==
    \/ UtilLoad
    \/ UtilAdapter
    \/ UtilRequest

SpecSetup == InitSetup /\ [][NextSetup]_vars

----------------------------------------------------------------------------
\* Properties of classifyRequest (SpecClassify).

Running == cls.c.pc # "idle"

\* The tags of the answers that carry "loading model" in their body.
LoadingTags ==
    {"loading model, please wait", "Loading model", "loading model, request aborted"}

OnlySeen(tags) == \A t \in OutcomeTags \ tags : cls.seen[t] = 0

\* C6: a timed-out call is retried at most once per request, the retry runs
\* with the timeout max(2 x timeoutMs, 8000), and a second timeout is not
\* retried: classifyRequest throws the abort error.
C6_TimeoutRetriedOnce ==
    Running =>
        /\ cls.seen["timeout"] <= 2
        /\ (cls.last = "timeout" /\ cls.c.pc # "thrown") =>
               /\ cls.seen["timeout"] = 1
               /\ cls.c.pc = "primary"
               /\ cls.timeoutWarns = 1
               /\ cls.c.timeoutMs =
                    IF 2 * config.timeoutMs >= 8000 THEN 2 * config.timeoutMs ELSE 8000
        /\ cls.seen["timeout"] = 2 => (cls.c.pc = "thrown" /\ cls.c.err = AbortError)
        /\ cls.timeoutWarns = 0 => cls.c.timeoutMs = config.timeoutMs

\* A second timeout, after a retry with the doubled timeout and a
\* model-loading retry in between, ends the request.
C6_Witness ==
    /\ cls.seen["timeout"] = 2
    /\ cls.c.pc = "thrown"
    /\ config.timeoutMs = 5000
    /\ cls.c.timeoutMs = 10000
    /\ cls.loadingWarns >= 1

\* C7: a model-loading failure is retried up to loadingMaxRetries times, each
\* retry after a delay of loadingRetryMs; the (loadingMaxRetries+1)-th
\* model-loading failure of the request is not retried: classifyRequest throws.
C7_LoadingRetriedUpToMax ==
    Running =>
        LET failures ==
              cls.seen["loading model, please wait"] + cls.seen["Loading model"]
                + cls.seen["loading model, request aborted"]
        IN /\ (cls.last \in LoadingTags /\ cls.c.pc # "thrown") => cls.c.pc = "sleep"
           /\ (cls.last \in LoadingTags /\ failures > config.loadingMaxRetries) =>
                  cls.c.pc = "thrown"
           /\ cls.slept = cls.sleeps * config.loadingRetryMs

C9_TwoModesInOrder ==
    LET n == Len(cls.att)
    IN /\ n <= 2
       /\ n >= 1 => cls.att[1].stream = config.forceStream
       /\ n = 2 => (/\ cls.att[2].stream = ~config.forceStream
                    /\ cls.att[1].ok
                    /\ cls.att[1].decision = NullDecision)
       /\ (n = 1 /\ cls.att[1].ok /\ cls.att[1].decision = NullDecision) =>
              cls.c.pc = "fallback"
       /\ (n >= 1 /\ cls.att[n].ok /\ cls.att[n].decision \in Decisions) =>
              (cls.c.pc = "returned" /\ cls.c.decision = cls.att[n].decision)
       /\ (n = 2 /\ cls.att[2].ok /\ cls.att[2].decision = NullDecision) =>
              (cls.c.pc = "thrown" /\ cls.c.err = NoDecisionError)

\* With forceStream false, a buffered call without a decision was followed
\* by one streamed call, which gave the decision.
C9_Witness ==
    /\ ~config.forceStream
    /\ Len(cls.att) = 2
    /\ ~cls.att[1].stream /\ cls.att[1].decision = NullDecision
    /\ cls.att[2].stream /\ cls.att[2].decision = 0
    /\ cls.c.pc = "returned"

----------------------------------------------------------------------------
\* Properties of readDecisionFromSse (SpecSse).

\* The lines completed by the first k chunks of the stream.
LinesWithin(chunks, k) ==
    LET pieces == split(Flatten(SubSeq(chunks, 1, k)))
    IN SubSeq(pieces, 1, Len(pieces) - 1)

\* The digit a complete line decodes to, if it is a data event with one.
LineDigit(line) ==
    IF Len(line) = 2 /\ line[1] = Data /\ line[2].a = "json"
    THEN extractDecision(Coalesce(line[2].delta, Coalesce(line[2].text, <<>>)))
    ELSE NullDecision

\* The lines at which reading stops: a digit, or [DONE].
Stops(lines) ==
    {i \in 1..Len(lines) : lines[i] = <<Data, Done>> \/ LineDigit(lines[i]) # NullDecision}

\* C10: on the streaming path the first event that yields a digit ends the
\* read: the connection is aborted and that digit returned in the very read
\* that completes the event's line, no later chunk is read, no later event
\* is parsed, and until then nothing is returned.
C10_AbortOnFirstDigit ==
    sse.pc \in {"reading", "returned"} =>
        LET seenLines == LinesWithin(sse.chunks, sse.pos)
            stops == Stops(seenLines)
            first == MinOf(stops)
        IN IF stops # {} /\ LineDigit(seenLines[first]) # NullDecision
           THEN /\ sse.pc = "returned"
                /\ sse.value = LineDigit(seenLines[first])
                /\ sse.aborted
                /\ Len(LinesWithin(sse.chunks, sse.pos - 1)) < first
                /\ sse.parsed =
                     Cardinality({i \in 1..first :
                                    /\ Len(seenLines[i]) = 2
                                    /\ seenLines[i][1] = Data
                                    /\ seenLines[i][2].a = "json"})
           ELSE /\ sse.value = NullDecision
                /\ ~sse.aborted
                /\ sse.pc = "returned" => (stops # {} \/ sse.pos = Len(sse.chunks))

\* A digit in the first chunk ended the read while a second chunk, holding
\* another digit, was never read.
C10_Witness ==
    /\ sse.pc = "returned"
    /\ sse.aborted
    /\ sse.value = 0
    /\ sse.pos = 1
    /\ Len(sse.chunks) = 2
    /\ LineDigit(LinesWithin(sse.chunks, 2)[2]) = 1

----------------------------------------------------------------------------
\* Properties of the router (Spec).

Valid(r) == ~Falsy(req[r].payload.messages)

\* C1: when classifyRequest fails, for whatever reason, the request is
\* routed to frontier with decision 2 and the fallback warning is logged; the
\* client gets the adapter's answer, never an error of the handler.
C1_ClassifierFailureFallsBack ==
    \A r \in 1..NReq :
        req[r].classified = "thrown" =>
            /\ req[r].pc \in {"dispatch", "done"}
            /\ req[r].decision = 2
            /\ req[r].warned
            /\ req[r].pc = "done" =>
                   /\ req[r].route = "frontier"
                   /\ req[r].response.upstream = "frontier"
                   /\ req[r].response.decision = "2"
                   /\ req[r].response.status # 500
                   /\ req[r].response.error # "internal_error"

\* Each way of failing the claim lists can end classifyRequest; one request
\* failed on a second timeout, another on exhausted model-loading retries,
\* and both were answered from frontier.
C1_Witness ==
    /\ \A k \in {"timeout", "model loading", "status", "parse", "no decision"} :
           \E e \in classifyEnds(config) : e.thrown /\ e.failure = k
    /\ req[1].failure = "timeout" /\ req[2].failure = "model loading"
    /\ \A r \in 1..2 : /\ req[r].pc = "done"
                       /\ req[r].route = "frontier"
                       /\ req[r].response.status = 200
                       /\ req[r].warned

\* C2: with caching enabled, a request that reads a decision digit from the
\* cache never invokes the classifier and is routed by that digit, whatever
\* its model, stream flag and temperature.
C2_CacheHitSkipsClassifier ==
    \A r \in 1..NReq :
        (config.cacheEnabled /\ req[r].cached \in {"0", "1", "2"}) =>
            /\ req[r].classified = "no"
            /\ req[r].pc \in {"dispatch", "done"}
            /\ req[r].cached = "0" => req[r].decision = 0
            /\ req[r].cached = "1" => req[r].decision = 1
            /\ req[r].cached = "2" => req[r].decision = 2
            /\ req[r].pc = "done" =>
                   req[r].route = CASE req[r].cached = "0" -> "cheap"
                                    [] req[r].cached = "1" -> "medium"
                                    [] OTHER -> "frontier"

\* A request classified to 1; a second one with the same fingerprint but
\* another model, stream flag and temperature read "1" and went to medium.
C2_Witness ==
    \E r, q \in 1..NReq :
        /\ req[r].classified = "returned" /\ req[r].decision = 1
        /\ req[q].cached = "1" /\ req[q].classified = "no"
        /\ req[q].hash = req[r].hash
        /\ req[q].payload.temperature # req[r].payload.temperature
        /\ req[q].payload.model # req[r].payload.model
        /\ req[q].payload.stream # req[r].payload.stream
        /\ req[q].pc = "done" /\ req[q].route = "medium"

\* No classification failed, no cache operation failed, no entry was lost.
Undisturbed ==
    /\ config.cacheEnabled
    /\ ~cacheLost
    /\ \A r \in 1..NReq : req[r].classified # "thrown" /\ ~req[r].cacheError

\* C3 as stated: among requests sharing a fingerprint, concurrent ones
\* included, at most one issues a classifier call.
C3_AtMostOncePerFingerprint ==
    Undisturbed =>
        \A r, q \in 1..NReq :
            (r # q /\ Valid(r) /\ Valid(q) /\ req[r].hash = req[q].hash) =>
                ~(req[r].classified # "no" /\ req[q].classified # "no")

\* C3 amended: two requests sharing a fingerprint both issue a classifier
\* call only if one looked the cache up before the other had stored its
\* decision; a request that looks up after the store reuses the decision.
C3_AtMostOnceUnlessOverlapping ==
    Undisturbed =>
        \A r, q \in 1..NReq :
            (/\ r # q /\ Valid(r) /\ Valid(q) /\ req[r].hash = req[q].hash
             /\ req[r].classified # "no" /\ req[q].classified # "no") =>
                (r \in req[q].overlap \/ q \in req[r].overlap)

\* Two requests with one fingerprint, handled one after the other: the first
\* classified and stored, the second reused the decision.
C3_Witness ==
    /\ Undisturbed
    /\ \E r, q \in 1..NReq :
        /\ r # q /\ req[r].hash = req[q].hash
        /\ req[r].classified = "returned" /\ req[r].events = <<"lookup", "classify", "store", "dispatch">>
        /\ req[q].classified = "no" /\ req[q].events = <<"lookup", "dispatch">>
        /\ req[q].decision = req[r].decision

\* C4: with the classifier disabled every valid request is routed to
\* frontier with decision 2, and neither the cache nor the classifier is
\* touched.
C4_DisabledRoutesFrontier ==
    ~config.classifierEnabled =>
        /\ cache = CacheEmpty
        /\ \A r \in 1..NReq :
               /\ req[r].classified = "no"
               /\ req[r].cached = "null"
               /\ req[r].events \in {<<>>, <<"dispatch">>}
               /\ req[r].pc \in {"idle", "dispatch", "done"}
               /\ req[r].pc = "dispatch" => req[r].decision = 2
               /\ (req[r].pc = "done" /\ Valid(r)) =>
                      /\ req[r].decision = 2
                      /\ req[r].route = "frontier"
                      /\ req[r].response.decision = "2"
                      /\ req[r].response.upstream = "frontier"

C4_Witness ==
    /\ ~config.classifierEnabled
    /\ config.cacheEnabled
    /\ req[1].pc = "done" /\ req[2].pc = "done"
    /\ req[1].payload.messages = "hello" /\ req[2].payload.messages = "prove it"
    /\ req[1].route = "frontier" /\ req[2].route = "frontier"

Rank(e) ==
    CASE e = "lookup" -> 1 [] e = "classify" -> 2 [] e = "store" -> 3 [] OTHER -> 4

\* C5: within one request the events occur in the order cache lookup,
\* classifier call, cache store, upstream dispatch; a store comes only
\* after the classifier's result, and the request is dispatched only once
\* its decision is fixed: the decision the adapter reports is the final one.
C5_EventOrder ==
    \A r \in 1..NReq :
        LET ev == req[r].events
        IN /\ \A i, j \in 1..Len(ev) : i < j => Rank(ev[i]) < Rank(ev[j])
           /\ (\E i \in 1..Len(ev) : ev[i] = "store") =>
                  (\E i \in 1..Len(ev) : ev[i] = "classify")
           /\ (\E i \in 1..Len(ev) : ev[i] = "dispatch") =>
                  /\ req[r].decision \in Decisions
                  /\ req[r].response.decision = String(req[r].decision)
                  /\ req[r].pc = "done"

C5_Witness ==
    /\ req[1].events = <<"lookup", "classify", "store", "dispatch">>
    /\ req[1].classified = "returned"
    /\ req[1].decision = 0
    /\ req[2].events = <<"lookup", "dispatch">>

----------------------------------------------------------------------------
\* Further properties of classifyRequest (SpecClassify).

\* C11: a non-OK answer whose body lacks "loading model" makes
\* classifyRequest fail at once: when such an answer was the last outcome,
\* classifyRequest has thrown and awaits no further call.
C11_OtherStatusNotRetried ==
    cls.last \in {"request aborted", "internal error"} => cls.c.pc = "thrown"

----------------------------------------------------------------------------
\* Properties of the helpers of utils.js (SpecUtils).

\* C12: two payloads with the same messages, tools, tool_choice and
\* response_format get the same fingerprint from hashPayload, whatever their
\* model, stream and temperature.
C12_HashIgnoresModelStreamTemperature ==
    (util.fn = "hashPayload" /\ util.done) =>
        LET p == util.in[1]
            q == util.in[2]
        IN (/\ p.messages = q.messages /\ p.tools = q.tools
            /\ p.tool_choice = q.tool_choice
            /\ p.response_format = q.response_format) =>
               util.out[1] = util.out[2]

\* Two payloads with tools and a response format that differ in model,
\* stream and temperature were hashed to one fingerprint.
C12_Witness ==
    /\ util.fn = "hashPayload" /\ util.done
    /\ util.in[1].messages = "hello" /\ util.in[2].messages = "hello"
    /\ util.in[1].tools = "[t]" /\ util.in[2].tools = "[t]"
    /\ util.in[1].tool_choice = util.in[2].tool_choice
    /\ util.in[1].response_format = "json" /\ util.in[2].response_format = "json"
    /\ util.in[1].model # util.in[2].model
    /\ util.in[1].stream # util.in[2].stream
    /\ util.in[1].temperature # util.in[2].temperature
    /\ util.out[1] = util.out[2]

\* C13: extractDecision returns the first character of the text that lies
\* in '0'..'2', as an integer, and null exactly when the text has no such
\* character.
C13_ExtractDecisionFirstDigit ==
    (util.fn = "extractDecision" /\ util.done) =>
        LET s == util.in
            d == util.out
            IsDigit(i) == s[i] = "0" \/ s[i] = "1" \/ s[i] = "2"
        IN /\ (d = NullDecision) <=> (\A i \in 1..Len(s) : ~IsDigit(i))
           /\ \A i \in 1..Len(s) :
                  (IsDigit(i) /\ \A j \in 1..(i - 1) : ~IsDigit(j)) =>
                      /\ s[i] = "0" => d = 0
                      /\ s[i] = "1" => d = 1
                      /\ s[i] = "2" => d = 2

\* A text whose first digit in range comes after other characters and
\* before another digit.
C13_Witness ==
    /\ util.fn = "extractDecision" /\ util.done
    /\ util.in = <<"3", "2", "0">>
    /\ util.out = 2

\* The text of a content as the claim describes it: for an array the
\* concatenation of its parts' texts, a part's text being the part itself
\* if it is a string, else part.text, else part.input_text, else the text of
\* part.content.
RECURSIVE PartsText(_), PartsTextFrom(_, _)
PartsText(c) ==
    CASE c.t \in {"null", "undefined"} -> <<>>
      [] c.t = "string" -> c.s
      [] c.t = "array" -> PartsTextFrom(c.items, 1)
      [] OTHER -> stringify(c)

PartsTextFrom(parts, i) ==
    IF i > Len(parts) THEN <<>>
    ELSE LET part == parts[i]
             text == CASE part.t = "string" -> part.s
                       [] Field(part, KeyText).t = "string" -> Field(part, KeyText).s
                       [] Field(part, KeyInputText).t = "string" ->
                              Field(part, KeyInputText).s
                       [] Field(part, KeyContent).t # "undefined" ->
                              PartsText(Field(part, KeyContent))
                       [] OTHER -> <<>>
         IN text \o PartsTextFrom(parts, i + 1)

\* C14: coerceContent returns "" for null and undefined, a string
\* unchanged, and for an array of parts the concatenation of the parts'
\* texts.
C14_CoerceContentConcatenatesParts ==
    (util.fn = "coerceContent" /\ util.done) => util.out = PartsText(util.in)

\* C15: buildClassifierInput returns the content of the last message whose
\* role is user (as coerceContent renders it), or the JSON text of all
\* messages as [{role, content}] when the strategy is full_messages or there
\* is no user message; unchanged when at most maxChars long, otherwise its
\* first maxChars characters followed by "\n[TRUNCATED]".
C15_BuildClassifierInput ==
    (util.fn = "buildClassifierInput" /\ util.done) =>
        LET ms == IF util.in.messages.t = "array" THEN util.in.messages.items ELSE <<>>
            users == {i \in 1..Len(ms) : Field(ms[i], KeyRole) = JStr(RoleUser)}
            full == stringify(JArr([i \in 1..Len(ms) |->
                        JObj(<<KeyRole, KeyContent>>,
                             <<Field(ms[i], KeyRole), Field(ms[i], KeyContent)>>)]))
            text == IF util.in.strategy = "full_messages" \/ users = {} THEN full
                    ELSE LET last == CHOOSE i \in users : \A j \in users : j <= i
                         IN coerceContent(Field(ms[last], KeyContent))
            n == util.in.maxChars
        IN IF Len(text) <= n THEN util.out = text
           ELSE /\ Len(util.out) = n + Len(TruncatedMarker)
                /\ SubSeq(util.out, 1, n) = SubSeq(text, 1, n)
                /\ SubSeq(util.out, n + 1, Len(util.out)) = TruncatedMarker

\* Two user messages, the last one six characters long, cut to four.
C15_Witness ==
    /\ util.fn = "buildClassifierInput" /\ util.done
    /\ util.in.strategy = "last_user"
    /\ util.in.maxChars = 4
    /\ util.in.messages = JArr(<<Message(RoleUser, JStr(<<"h", "i">>)),
                                 Message(RoleUser, JStr(<<"h", "e", "l", "l", "o", "!">>))>>)
    /\ util.out = <<"h", "e", "l", "l">> \o TruncatedMarker

----------------------------------------------------------------------------
\* Properties of one cache backend instance (SpecCache).

\* C16: read-your-writes.  A get(k) of the in-process or the remote cache
\* returns the value of the last completed set(k, v) when it is issued
\* before that entry's TTL has run out (ttlMs in process, whole seconds,
\* at least one, remotely) and, in process, no more keys were ever set
\* than the cache holds; operations on other keys do not matter.
C16_ReadYourWrites ==
    (kv.op.name = "get" /\ kv.kind \in {"memory", "redis"}) =>
        LET w == kv.lastSet[kv.op.key]
            seconds == kv.cfg.ttlMs \div 1000
            ttl == IF kv.kind = "memory" THEN kv.cfg.ttlMs
                   ELSE IF seconds < 1 THEN 1000 ELSE 1000 * seconds
            fits == kv.kind = "redis" \/ Cardinality(kv.everSet) <= kv.cfg.maxEntries
        IN (w.value # "null" /\ kv.now - w.at < ttl /\ fits) =>
               kv.op.value = w.value

\* In process, with room for two keys: "a" was set twice, "b" was set as
\* well, and a second later get("a") returned the later value.
C16_Witness ==
    /\ kv.kind = "memory" /\ kv.cfg.maxEntries = 2 /\ kv.cfg.ttlMs = 1500
    /\ kv.everSet = {"a", "b"}
    /\ kv.lastSet["a"] = [value |-> "1", at |-> 500]
    /\ kv.lastSet["b"].at = 1000
    /\ kv.now = 1500
    /\ kv.op = [name |-> "get", key |-> "a", value |-> "1"]

----------------------------------------------------------------------------
\* Further properties of the router (Spec).

\* C17: an error raised by the cache backend's get or set while a request
\* is handled does not propagate: the request does not end in the
\* handler's error response, it is routed and proxied.
C17_CacheErrorsDoNotPropagate ==
    \A r \in 1..NReq :
        (req[r].cacheError /\ req[r].pc = "done") =>
            /\ req[r].response.status # 500
            /\ req[r].response.error # "internal_error"
            /\ req[r].route \in {"cheap", "medium", "frontier"}

----------------------------------------------------------------------------
\* Properties of the adapters' usage capture (SpecProxy).

\* C19: every adapter calls recordUsage exactly once for a request it has
\* proxied, streamed or buffered, whether or not the upstream's reply
\* carries a usage object.
C19_RecordUsageExactlyOnce ==
    (px.pc = "done" /\ px.reply.kind \in {"ok", "error"}) => px.calls = 1

\* The sum over the buckets of promptTokens + completionTokens.
TokenSum(b) ==
    LET of(name) == b[name].promptTokens + b[name].completionTokens
    IN of("cheap") + of("medium") + of("frontier") + of("unknown")

\* The prompt and completion tokens a usage object reports, read by the
\* schema its fields belong to.
Reported(u) ==
    LET z(x) == IF x = Missing THEN 0 ELSE x
    IN CASE u.prompt_tokens # Missing \/ u.completion_tokens # Missing ->
              z(u.prompt_tokens) + z(u.completion_tokens)
         [] u.input_tokens # Missing \/ u.output_tokens # Missing ->
              z(u.input_tokens) + z(u.output_tokens)
         [] OTHER -> z(u.promptTokenCount) + z(u.candidatesTokenCount)

Recognized(u) ==
    /\ u.present
    /\ \/ u.prompt_tokens # Missing \/ u.completion_tokens # Missing
       \/ u.input_tokens # Missing \/ u.output_tokens # Missing
       \/ u.promptTokenCount # Missing \/ u.candidatesTokenCount # Missing
       \/ u.total_tokens # Missing \/ u.totalTokenCount # Missing

\* C20: after a request answered by a successful buffered reply with a
\* usage object of a recognized schema, the sum over all buckets of
\* promptTokens + completionTokens has grown by exactly the prompt and
\* completion tokens the reply reports, for every adapter.
C20_BufferedUsageAdded ==
    (/\ px.pc = "done" /\ ~px.stream
     /\ px.reply.kind = "ok" /\ px.reply.json
     /\ Recognized(px.reply.usage)) =>
        TokenSum(buckets) - TokenSum(px.before) = Reported(px.reply.usage)

\* The schema a usage object belongs to, by its prompt and completion
\* fields; "none" when it has none of them or fields of two schemas.
SchemaOf(u) ==
    LET openai == u.prompt_tokens # Missing \/ u.completion_tokens # Missing
        anthropic == u.input_tokens # Missing \/ u.output_tokens # Missing
        gemini == \/ u.promptTokenCount # Missing \/ u.candidatesTokenCount # Missing
                  \/ u.totalTokenCount # Missing
    IN CASE openai /\ ~anthropic /\ ~gemini -> "openai"
         [] anthropic /\ ~openai /\ ~gemini -> "anthropic"
         [] gemini /\ ~openai /\ ~anthropic /\ u.total_tokens = Missing -> "gemini"
         [] OTHER -> "none"

\* (prompt, completion, total) as the schema's table reads them.
BySchema(u) ==
    LET z(x) == IF x = Missing THEN 0 ELSE x
        triple(p, c, t) == <<z(p), z(c), IF t = Missing THEN z(p) + z(c) ELSE t>>
    IN CASE SchemaOf(u) = "openai" ->
              triple(u.prompt_tokens, u.completion_tokens, u.total_tokens)
         [] SchemaOf(u) = "anthropic" ->
              triple(u.input_tokens, u.output_tokens, u.total_tokens)
         [] OTHER ->
              triple(u.promptTokenCount, u.candidatesTokenCount, u.totalTokenCount)

\* C21: normalizeUsage reads a usage object of one schema by that schema's
\* own fields: the prompt, completion and total counters of the request's
\* bucket grow by the schema's prompt and completion fields (0 when
\* missing) and by its total field, or prompt + completion when the total
\* is absent.
C21_NormalizeUsageBySchema ==
    (/\ px.pc = "done" /\ ~px.stream /\ px.calls = 1
     /\ SchemaOf(px.reply.usage) # "none") =>
        LET now == buckets[px.route]
            was == px.before[px.route]
        IN <<now.promptTokens - was.promptTokens,
             now.completionTokens - was.completionTokens,
             now.totalTokens - was.totalTokens>> = BySchema(px.reply.usage)

\* An upstream stream that is complete in its own format: at least one
\* event with text, then the one event that ends the answer, then [DONE].
WellFormed(reply) ==
    LET ev == reply.events
    IN /\ reply.kind = "ok" /\ ~reply.json /\ reply.doneLine
       /\ Len(ev) >= 2
       /\ ev[Len(ev)].stop
       /\ \A i \in 1..(Len(ev) - 1) : ~ev[i].stop
       /\ \E i \in 1..(Len(ev) - 1) : ev[i].text

\* C22: a streaming response holds, in this order, at least one chunk with
\* non-empty delta.content, exactly one terminator chunk (delta {},
\* finish_reason "stop") and exactly one final "data: [DONE]" line, after
\* which nothing is written; for every adapter.
C22_StreamChunksTerminatorDone ==
    (/\ px.pc = "done" /\ px.stream /\ px.response.hijacked
     /\ WellFormed(px.reply)) =>
        LET w == px.response.written
            n == Len(w)
        IN /\ n >= 3
           /\ w[n] = "done" /\ w[n - 1] = "stop"
           /\ \A i \in 1..(n - 2) : w[i] \notin {"done", "stop"}
           /\ \E i \in 1..(n - 2) : w[i] = "content"

\* C23: for every adapter, when the upstream call exceeds
\* upstream.timeoutMs or fails at transport level, the client is served
\* HTTP 502 with error "upstream_error".
C23_TimeoutOrTransportIs502 ==
    (/\ px.pc = "done"
     /\ px.late \/ px.reply.kind \in {"network", "timeout"}) =>
        /\ px.response.status = 502
        /\ px.response.error = "upstream_error"

\* C24: every response on the proxy path, once the decision is made
\* (success, upstream-reported error, transport error, missing model or
\* deployment, unsupported provider), carries the decision header with the
\* decision digit and the upstream header with the selected upstream's name.
C24_EveryResponseCarriesHeaders ==
    px.pc = "done" =>
        /\ px.response.decision \in {"0", "1", "2"}
        /\ px.response.decision = String(px.decision)
        /\ px.response.upstream = px.route

----------------------------------------------------------------------------
\* Properties of start-up and admission (SpecSetup).

\* The adapters the host table allows for a host, and those the key table
\* allows for a key: every row whose pattern the text matches.
HostRows ==
    { <<PatAnthropic, "anthropic">>, <<PatGemini, "gemini">>, <<PatCohere, "cohere">>,
      <<PatAzure, "azure_openai">>, <<PatMistral, "openai">>, <<PatGroq, "openai">>,
      <<PatTogether, "openai">>, <<PatPerplexity, "openai">>,
      <<PatOpenRouter, "openai">>, <<PatOpenAi, "openai">> }
FromHost(baseUrl) ==
    IF baseUrl.t = "null" \/ ~baseUrl.parses THEN {}
    ELSE {row[2] : row \in {r \in HostRows : includes(baseUrl.host, r[1])}}
FromKey(apiKey) ==
    (IF startsWith(apiKey, PrefixSkAnt) THEN {"anthropic"} ELSE {})
    \cup (IF startsWith(apiKey, PrefixAIza) THEN {"gemini"} ELSE {})
    \cup (IF startsWith(toLowerCase(apiKey), PrefixCohere) THEN {"cohere"} ELSE {})

\* C25: a non-empty provider tag other than "auto" is taken literally and
\* yields its registered adapter or, when none is registered for it, the
\* responder that answers 501 provider_not_supported; an empty or "auto"
\* tag is inferred from the base URL host first, then from the API-key
\* prefix, and falls back to the OpenAI-compatible adapter.
C25_GetProviderAdapter ==
    (util.fn = "getProviderAdapter" /\ util.done) =>
        LET u == util.in
            tag == u.provider
        IN IF tag \notin {"", "auto"}
           THEN util.out = CASE tag \in {"anthropic", "gemini", "cohere", "azure_openai"} -> tag
                             [] tag \in {"openai_compatible", "openrouter", "openai",
                                         "mistral", "groq", "together", "perplexity"} -> "openai"
                             [] OTHER -> NotSupported
           ELSE IF FromHost(u.baseUrl) # {} THEN util.out \in FromHost(u.baseUrl)
           ELSE IF FromKey(u.apiKey) # {} THEN util.out \in FromKey(u.apiKey)
           ELSE util.out = "openai"

\* An upstream tagged "auto" whose host says Anthropic and whose key says
\* Gemini got the Anthropic adapter.
C25_Witness ==
    /\ util.fn = "getProviderAdapter" /\ util.done
    /\ util.in.provider = "auto"
    /\ FromHost(util.in.baseUrl) = {"anthropic"}
    /\ FromKey(util.in.apiKey) = {"gemini"}
    /\ util.out = "anthropic"

\* A text without its trailing slashes.
Strip(s) ==
    LET k == CHOOSE k \in 0..Len(s) :
                 /\ k = 0 \/ s[k] # "/"
                 /\ \A j \in (k + 1)..Len(s) : s[j] = "/"
    IN SubSeq(s, 1, k)

\* The configuration a successful load produced has a cheap tier and a
\* classifier whose base URLs are texts that are equal once stripped.
SameBase(out) ==
    /\ out.ok
    /\ out.config.upstreams.cheap.t = "upstream"
    /\ out.config.upstreams.cheap.baseUrl.t = "string"
    /\ out.config.classifier.baseUrl.t = "string"
    /\ Strip(out.config.upstreams.cheap.baseUrl.s)
         = Strip(out.config.classifier.baseUrl.s)

HasBaseUrl(upstream) ==
    /\ upstream.t = "upstream"
    /\ upstream.baseUrl.t = "string"
    /\ upstream.baseUrl.s # <<>>

\* The upstreams file sets the tier to null.
Suppressed(e, key) == e.file.t = "object" /\ Field(e.file, key) = JNull

\* C27: loading fails whenever frontier.baseUrl is unset, and whenever the
\* classifier is enabled and cheap.baseUrl or medium.baseUrl is unset,
\* a tier suppressed with an explicit null included; every configuration
\* that loads has them set.
C27_RequiredBaseUrls ==
    (util.fn = "loadConfig" /\ util.done) =>
        LET e == util.in
            out == util.out
            ups == out.config.upstreams
            enabled == out.config.classifier.enabled
        IN /\ ~HasBaseUrl(ups.frontier) => ~out.ok
           /\ (enabled /\ ~HasBaseUrl(ups.cheap)) => ~out.ok
           /\ (enabled /\ ~HasBaseUrl(ups.medium)) => ~out.ok
           /\ Suppressed(e, KeyFrontier) => ~out.ok
           /\ (e.CLASSIFIER_ENABLED /\ Suppressed(e, KeyCheap)) => ~out.ok
           /\ (e.CLASSIFIER_ENABLED /\ Suppressed(e, KeyMedium)) => ~out.ok
           /\ (e.file = JNull /\ e.FRONTIER_BASE_URL \in {JUndefined, JStr(<<>>)})
                  => ~out.ok

\* With the classifier enabled and every base URL set in the environment,
\* an upstreams file that sets medium to null made the load fail.
C27_Witness ==
    /\ util.fn = "loadConfig" /\ util.done
    /\ util.in.CLASSIFIER_ENABLED
    /\ util.in.CLASSIFIER_BASE_URL = JStr(<<"a">>)
    /\ util.in.MEDIUM_BASE_URL = JStr(<<"b">>)
    /\ util.in.FRONTIER_BASE_URL = JStr(<<"b">>)
    /\ Suppressed(util.in, KeyMedium)
    /\ Field(util.in.file, KeyCheap) = JUndefined
    /\ Field(util.in.file, KeyFrontier) = JUndefined
    /\ ~util.out.ok
    /\ util.out.error = "MEDIUM_BASE_URL is required"

\* C28: with a router API key configured, a request to any endpoint is
\* handled only if its authorization header is exactly "Bearer <key>";
\* with any other header it is answered 401 unauthorized and its handler,
\* hence cache, classifier and upstream, is never reached.
C28_OnlyExactBearerIsProcessed ==
    (/\ util.fn = "request" /\ util.done
     /\ util.in.routerApiKey # <<>>) =>
        IF util.in.authorization = PrefixBearer \o util.in.routerApiKey
        THEN util.out.status = 0 /\ util.out.handled
        ELSE /\ util.out.status = 401
             /\ util.out.error = "unauthorized"
             /\ ~util.out.handled

\* C29: a chat-completion request whose payload lacks messages is answered
\* 400 invalid_request at once: it is never fingerprinted, never looks the
\* cache up, never calls the classifier and never reaches an upstream.
C29_MissingMessagesRejected ==
    \A r \in 1..NReq :
        (req[r].pc # "idle" /\ Falsy(req[r].payload.messages)) =>
            /\ req[r].pc = "done"
            /\ req[r].response.status = 400
            /\ req[r].response.error = "invalid_request"
            /\ req[r].response.upstream = "none"
            /\ req[r].hash = NoHash
            /\ req[r].events = <<>>
            /\ req[r].cached = "null"
            /\ req[r].classified = "no"
            /\ req[r].route = "none"
            /\ ~req[r].cacheError

\* A payload without messages was rejected while the classifier and the
\* cache were enabled and another request, with messages, was dispatched.
C29_Witness ==
    /\ config.classifierEnabled /\ config.cacheEnabled
    /\ \E r, q \in 1..NReq :
        /\ req[r].pc = "done"
        /\ Falsy(req[r].payload.messages)
        /\ req[r].response.status = 400
        /\ req[q].pc = "done"
        /\ "dispatch" \in {req[q].events[i] : i \in 1..Len(req[q].events)}

----------------------------------------------------------------------------
\* Concurrent requests and the usage buckets.  Each of NCalls requests in
\* flight has awaited its upstream and calls recordUsage once, when its
\* reply arrives; replies arrive in any order.  recordUsage has no await:
\* a call runs from its first to its last statement before another
\* handler's code runs, so one call is one step.

NCalls == 3

\* The routes the calls are made with (an unknown one goes to the bucket
\* "unknown") and the usage objects they carry.
UsageRoutes == {"cheap", "medium", "other"}
UsageCalls ==
    [route : UsageRoutes,
     usage : { Usage(5, 3, 8, Missing, Missing, Missing, Missing, Missing),
               Usage(Missing, Missing, Missing, 4, 2, Missing, Missing, Missing),
               Usage(Missing, Missing, Missing, Missing, Missing, Missing, Missing,
                     Missing),
               NoUsage }]

\* lastUpdated = Date.now() at the end of recordUsage, reached only when the
\* usage was normalized; 0 stands for the initial null.
lastUpdated(last, usage, now) == IF normalizeUsage(usage).ok THEN now ELSE last

\* util.in holds the calls of the requests in flight, util.out the set of
\* requests whose call has been made, util.lastUpdated the module's
\* lastUpdated, with the number of the call as the clock.
InitUsage ==
    /\ config \in {cf \in ClassifierConfigs :
                     /\ cf.timeoutMs = 800 /\ cf.loadingMaxRetries = MaxLoadingRetries
                     /\ cf.loadingRetryMs = 1200 /\ cf.forceStream}
    /\ cache = CacheEmpty
    /\ cacheLost = FALSE
    /\ req = ReqIdle
    /\ cls = ClsIdle
    /\ sse = SseIdle
    /\ util \in [fn : {"recordUsage"}, in : [1..NCalls -> UsageCalls],
                 out : {{}}, done : {FALSE}, lastUpdated : {0}]
    /\ kv = KvIdle
    /\ buckets = BucketsInit
    /\ px = PxIdle

\* The reply of request i arrives and its handler calls recordUsage.
RecordUsage(i) ==
    /\ util.fn = "recordUsage"
    /\ i \notin util.out
    /\ buckets' = recordUsage(buckets, util.in[i].route, util.in[i].usage)
    /\ util' = [util EXCEPT !.out = @ \cup {i},
                            !.done = (util.out \cup {i} = 1..NCalls),
                            !.lastUpdated = lastUpdated(@, util.in[i].usage,
                                                        Cardinality(util.out) + 1)]
    /\ UNCHANGED <<config, cache, cacheLost, req, cls, sse, kv, px>>

NextUsage == \E i \in 1..NCalls : RecordUsage(i)

SpecUsage == InitUsage /\ [][NextUsage]_vars

\* The sum of the function f over a set of requests.
RECURSIVE SumOver(_, _)
SumOver(S, f) ==
    IF S = {} THEN 0
    ELSE LET i == CHOOSE x \in S : TRUE
         IN f[i] + SumOver(S \ {i}, f)

\* C30: whatever the order in which the calls of concurrently handled
\* requests are made, each bucket's requests, withUsage and token counters
\* equal the sums over the calls made for that bucket; no increment is lost.
C30_NoLostIncrement ==
    util.fn = "recordUsage" =>
        \A name \in DOMAIN buckets :
            LET made == {i \in util.out : pickBucket(util.in[i].route) = name}
                norm(i) == normalizeUsage(util.in[i].usage)
                one == [i \in 1..NCalls |-> 1]
                with == [i \in 1..NCalls |-> IF norm(i).ok THEN 1 ELSE 0]
                prompt == [i \in 1..NCalls |->
                              IF norm(i).ok THEN norm(i).prompt ELSE 0]
                completion == [i \in 1..NCalls |->
                                  IF norm(i).ok THEN norm(i).completion ELSE 0]
                total == [i \in 1..NCalls |->
                             IF norm(i).ok THEN norm(i).total ELSE 0]
            IN /\ buckets[name].requests = SumOver(made, one)
               /\ buckets[name].withUsage = SumOver(made, with)
               /\ buckets[name].promptTokens = SumOver(made, prompt)
               /\ buckets[name].completionTokens = SumOver(made, completion)
               /\ buckets[name].totalTokens = SumOver(made, total)

\* All the calls have been made, three of them for the same bucket and
\* two of those with usage, the last request's call before the first's.
C30_Witness ==
    /\ util.fn = "recordUsage" /\ util.done
    /\ \A i \in 1..NCalls : util.in[i].route = "cheap"
    /\ util.in[1].usage.prompt_tokens = 5
    /\ util.in[NCalls].usage.input_tokens = 4
    /\ buckets["cheap"].requests = NCalls
    /\ buckets["cheap"].withUsage >= 2
    /\ buckets["cheap"].totalTokens >= 14

----------------------------------------------------------------------------
\* The router behind a loaded configuration: the server listens only when
\* the module body of config.js has not thrown; with the remote store the
\* cache may hold entries of another writer when the server starts.

\* Environments with and without the medium tier and with upstreams files
\* that set cheap and medium to null or give cheap a base URL of its own.
RouteEnvs ==
    [CLASSIFIER_ENABLED : BOOLEAN,
     CLASSIFIER_BASE_URL : {JStr(<<"a">>)},
     CLASSIFIER_MODEL : {JUndefined},
     CHEAP_BASE_URL : {JUndefined},
     CHEAP_MODEL : {JUndefined},
     MEDIUM_BASE_URL : {JUndefined, JStr(<<"b">>)},
     FRONTIER_BASE_URL : {JStr(<<"b">>)},
     file : { JNull,
              JObj(<<KeyCheap, KeyMedium, KeyFrontier>>, <<JNull, JNull, JUndefined>>),
              JObj(<<KeyCheap, KeyMedium, KeyFrontier>>,
                   <<JObj(<<KeyBaseUrl>>, <<JStr(<<"a", "/", "/">>)>>),
                     JUndefined, JUndefined>>) }]

\* A store another writer has filled with a decision the router never writes.
ForeignCache == [h \in Hashes |-> "3"]

InitRoute ==
    /\ util \in {call \in {Startup(e) : e \in RouteEnvs} : call.out.ok}
    /\ config \in {cf \in RouterConfigs :
                     /\ cf.classifierEnabled = util.out.config.classifier.enabled
                     /\ cf.backend = "redis"}
    /\ cache \in IF config.cacheEnabled /\ config.classifierEnabled
                  THEN {CacheEmpty, ForeignCache} ELSE {CacheEmpty}
    /\ cacheLost = FALSE
    /\ req = ReqIdle
    /\ cls = ClsIdle
    /\ sse = SseIdle
    /\ kv = KvIdle
    /\ buckets = BucketsInit
    /\ px = PxIdle

SpecRoute == InitRoute /\ [][Next]_vars

\* The request has been handed to an adapter.
Dispatched(r) ==
    /\ req[r].pc = "done"
    /\ req[r].events # <<>>
    /\ req[r].events[Len(req[r].events)] = "dispatch"

\* C31: the route is a function of the decision alone, cheap for 0, medium
\* for 1, frontier for 2 and for every other value, and the upstream handed
\* to the adapter is the configured upstream of that route.
C31_RouteOfDecision ==
    \A r \in 1..NReq :
        Dispatched(r) =>
            LET d == req[r].decision
                ups == util.out.config.upstreams
            IN /\ d = 0 => (req[r].route = "cheap" /\ req[r].upstream = ups.cheap)
               /\ d = 1 => (req[r].route = "medium" /\ req[r].upstream = ups.medium)
               /\ d \notin {0, 1} =>
                      (req[r].route = "frontier" /\ req[r].upstream = ups.frontier)
               /\ req[r].response.upstream = req[r].route

\* One request was routed on a decision that is none of 0, 1, 2, and another
\* on decision 0, to upstreams that differ.
C31_Witness ==
    \E r, q \in 1..NReq :
        /\ Dispatched(r) /\ req[r].decision = 3 /\ req[r].route = "frontier"
        /\ Dispatched(q) /\ req[q].decision = 0 /\ req[q].route = "cheap"
        /\ req[r].upstream # req[q].upstream

----------------------------------------------------------------------------
\* Stream translation in proxyAnthropic, proxyGemini and proxyCohere: the
\* loop  for await (const data of readSse(res)) { ... }  followed by
\* writeOpenAiDone, one step per event readSse yields.  px holds the
\* adapter, the data lines the upstream sends, the number of them taken from
\* readSse and what has been written to reply.raw.

MaxEvents == 3

TranslatingAdapters == {"anthropic", "gemini", "cohere"}

\* A data line: one that does not parse; the line [DONE]; a JSON object
\* that is a text delta of the adapter's protocol (type content_block_delta,
\* type content-delta, an object with candidates) or another event, with
\* the texts it carries (for Gemini the texts of candidates[0]'s parts).
DataLine(json, delta, parts, done) ==
    [json |-> json, delta |-> delta, parts |-> parts, done |-> done]

DataLines(adapter) ==
    { DataLine(FALSE, FALSE, <<>>, FALSE), DataLine(FALSE, FALSE, <<>>, TRUE),
      DataLine(TRUE, FALSE, << <<"a">> >>, FALSE) }
    \cup { DataLine(TRUE, TRUE, parts, FALSE) :
             parts \in IF adapter = "gemini"
                       THEN { <<>>, << <<"a">> >>, << <<"b">> >>,
                              << <<"a">>, <<"b">> >>, << <<>>, <<"b">> >> }
                       ELSE { << <<>> >>, << <<"a">> >>, << <<"b">> >> } }

\* parts.map(part => part.text || "").join("")
joinParts(parts) ==
    LET F[i \in 0..Len(parts)] == IF i = 0 THEN <<>> ELSE F[i - 1] \o parts[i]
    IN F[Len(parts)]

\* json.delta.text of a content_block_delta, extractGeminiText(json),
\* extractCohereStreamText(json): "" for a line that is no text delta.
extractStreamText(adapter, data) ==
    IF data.json /\ data.delta THEN joinParts(data.parts) ELSE <<>>

Chunk(text) == [kind |-> "chunk", content |-> text]
DoneChunk == [kind |-> "done", content |-> <<>>]

\* The loop body with the chunk put in front of what was written.
onDataPrepend(adapter, written, data) ==
    LET text == extractStreamText(adapter, data)
    IN IF ~data.json THEN written
       ELSE IF text # <<>> THEN <<Chunk(text)>> \o written
       ELSE written

\* The loop body: JSON.parse or continue; if (text) writeOpenAiChunk(...)
onData(adapter, written, data) ==
    LET text == extractStreamText(adapter, data)
    IN IF ~data.json THEN written
       ELSE IF text # <<>> THEN Append(written, Chunk(text))
       ELSE written

StreamStarts ==
    UNION { [pc : {"read"}, adapter : {a},
             events : SeqsUpTo(DataLines(a), MaxEvents),
             pos : {0}, written : {<<>>}] : a \in TranslatingAdapters }

InitStream ==
    /\ config \in {cf \in ClassifierConfigs :
                     /\ cf.timeoutMs = 800 /\ cf.loadingMaxRetries = MaxLoadingRetries
                     /\ cf.loadingRetryMs = 1200 /\ cf.forceStream}
    /\ cache = CacheEmpty
    /\ cacheLost = FALSE
    /\ req = ReqIdle
    /\ cls = ClsIdle
    /\ sse = SseIdle
    /\ util = UtilIdle
    /\ kv = KvIdle
    /\ buckets = BucketsInit
    /\ px \in StreamStarts

\* readSse yields the next data line.
StreamYield ==
    /\ px.pc = "read"
    /\ px.pos < Len(px.events)
    /\ ~px.events[px.pos + 1].done
    /\ px' = [px EXCEPT !.pc = "data", !.pos = @ + 1]
    /\ UNCHANGED <<config, cache, cacheLost, req, cls, sse, util, kv, buckets>>

\* readSse returns: the upstream's stream has ended, or the line is [DONE].
StreamReturn ==
    /\ px.pc = "read"
    /\ IF px.pos = Len(px.events) THEN TRUE ELSE px.events[px.pos + 1].done
    /\ px' = [px EXCEPT !.pc = "finish"]
    /\ UNCHANGED <<config, cache, cacheLost, req, cls, sse, util, kv, buckets>>

\* The loop body runs on the line just yielded.
StreamData ==
    /\ px.pc = "data"
    /\ px' = [px EXCEPT !.pc = "read",
                        !.written = onData(px.adapter, @, px.events[px.pos])]
    /\ UNCHANGED <<config, cache, cacheLost, req, cls, sse, util, kv, buckets>>

\* writeOpenAiDone(reply)
StreamDone ==
    /\ px.pc = "finish"
    /\ px' = [px EXCEPT !.pc = "ended", !.written = Append(@, DoneChunk)]
    /\ UNCHANGED <<config, cache, cacheLost, req, cls, sse, util, kv, buckets>>

NextStream ==
    \/ StreamYield
    \/ StreamReturn
    \/ StreamData
    \/ StreamDone

SpecStream == InitStream /\ [][NextStream]_vars

\* The texts of the text deltas among the first n data lines, in order.
DeltaTexts(events, n) ==
    LET F[i \in 0..n] ==
            IF i = 0 THEN <<>>
            ELSE IF events[i].json /\ events[i].delta /\ joinParts(events[i].parts) # <<>>
            THEN Append(F[i - 1], joinParts(events[i].parts))
            ELSE F[i - 1]
    IN F[n]

\* The contents of the content chunks written so far, in order.
WrittenTexts(written) ==
    LET F[i \in 0..Len(written)] ==
            IF i = 0 THEN <<>>
            ELSE IF written[i].kind = "chunk" THEN Append(F[i - 1], written[i].content)
            ELSE F[i - 1]
    IN F[Len(written)]

\* C32: stream translation is incremental and keeps the order: whenever the
\* adapter is about to take the next upstream event, and when it has ended,
\* the chunks written are exactly one per text delta taken so far, with
\* that delta's text, in upstream order; nothing is held back.
C32_IncrementalInOrder ==
    px.pc \in {"read", "data", "finish", "ended"} =>
        LET handled == IF px.pc = "data" THEN px.pos - 1 ELSE px.pos
        IN /\ WrittenTexts(px.written) = DeltaTexts(px.events, handled)
           /\ \A i \in 1..Len(px.written) :
                  px.written[i].kind = "done" => (i = Len(px.written) /\ px.pc = "ended")

\* Two text deltas with different texts have been taken and written in
\* that order while a third event is still to come.
C32_Witness ==
    /\ px.pc = "read"
    /\ px.pos = 2 /\ Len(px.events) = 3
    /\ px.written = <<Chunk(<<"a">>), Chunk(<<"b">>)>>
    /\ px.events[3].delta

\* C33: a recordUsage call with a missing or unrecognized usage object
\* only increments requests of its route's bucket (unknown for a route
\* that is none of cheap, medium, frontier): withUsage, the token
\* counters, lastUpdated and every other bucket are left as they were.
C33_UnrecognizedUsageCountsRequestOnly ==
    [][ \A i \in 1..NCalls :
          (/\ util.fn = "recordUsage"
           /\ i \notin util.out /\ i \in util'.out
           /\ ~Recognized(util.in[i].usage)) =>
              LET route == util.in[i].route
                  name == IF route \in {"cheap", "medium", "frontier"}
                          THEN route ELSE "unknown"
              IN /\ buckets' = [buckets EXCEPT ![name].requests = @ + 1]
                 /\ util'.lastUpdated = util.lastUpdated ]_vars

\* A call with usage was made first, then one with an unrecognized object
\* and one without any, both for a route the tracker does not know: the
\* unknown bucket counts two requests and nothing else, and lastUpdated is
\* still the time of the first call.
C33_Witness ==
    /\ util.fn = "recordUsage" /\ util.done
    /\ util.in[1] = [route |-> "cheap",
                     usage |-> Usage(5, 3, 8, Missing, Missing, Missing, Missing, Missing)]
    /\ util.in[2].route = "other" /\ util.in[2].usage.present
    /\ ~Recognized(util.in[2].usage)
    /\ util.in[3].route = "other" /\ ~util.in[3].usage.present
    /\ util.lastUpdated = 1
    /\ buckets["unknown"] = [initBucket EXCEPT !.requests = 2]
    /\ buckets["cheap"].totalTokens = 8

\* C34: the decision the classifier returned is the one the request is
\* routed with, whether storing it in the cache succeeds or fails: the
\* step that ends cache.set leaves the decision as it was.
C34_CacheSetErrorKeepsDecision ==
    [][ \A r \in 1..NReq :
          (req[r].pc = "set" /\ req'[r].pc # "set") =>
              /\ req'[r].pc = "dispatch"
              /\ req'[r].decision = req[r].decision ]_vars

\* The events recorded of request r.
EventsOf(r) == {req[r].events[i] : i \in 1..Len(req[r].events)}

\* C35: the frontier fallback taken when classification fails is never
\* written to the cache: a request whose classification failed performs no
\* store, every entry of the cache comes from a request whose
\* classification succeeded, and a request with the same fingerprint that
\* looks the cache up finds nothing and classifies again, unless a third
\* request has stored a decision of its own.
C35_FallbackNeverCached ==
    /\ \A r \in 1..NReq :
           req[r].classified = "thrown" => "store" \notin EventsOf(r)
    /\ \A h \in Hashes :
           cache[h] # "null" =>
               \E p \in 1..NReq :
                   /\ req[p].hash = h
                   /\ req[p].classified = "returned"
                   /\ "store" \in EventsOf(p)
    /\ \A r, q \in 1..NReq :
           (/\ r # q
            /\ req[r].classified = "thrown"
            /\ req[q].hash = req[r].hash
            /\ "lookup" \in EventsOf(q)
            /\ ~req[q].cacheError
            /\ \A p \in 1..NReq \ {r, q} :
                   req[p].hash # req[r].hash \/ "store" \notin EventsOf(p)) =>
               /\ req[q].cached = "null"
               /\ req[q].pc = "classify" \/ req[q].classified # "no"

\* A request fell back to frontier after its classification failed; the
\* other request, with the same fingerprint, found nothing in the cache,
\* was classified as cheap and stored that.
C35_Witness ==
    \E r, q \in 1..NReq :
        /\ r # q
        /\ req[r].pc = "done" /\ req[r].classified = "thrown"
        /\ req[r].decision = 2 /\ req[r].route = "frontier"
        /\ req[q].hash = req[r].hash
        /\ req[q].cached = "null" /\ req[q].classified = "returned"
        /\ req[q].decision = 0
        /\ cache[req[q].hash] = "0"

\* The number of HTTP calls made to the classifier so far.
ClassifierCalls == SumOver(OutcomeTags, cls.seen)

\* The number of classification attempts started so far.
Attempts ==
    IF cls.c.pc = "idle" THEN 0
    ELSE 1 + cls.timeoutWarns + cls.loadingWarns - (IF cls.c.pc = "sleep" THEN 1 ELSE 0)

\* C36: classifyRequest ends whenever every HTTP call ends: it makes at
\* most 2 + loadingMaxRetries attempts (one timeout retry, at most
\* loadingMaxRetries model-loading retries), each of at most two HTTP calls,
\* and then returns a decision in {0, 1, 2} or throws.
C36_ClassifyTerminates ==
    /\ [](/\ cls.timeoutWarns <= 1
          /\ cls.loadingWarns <= config.loadingMaxRetries
          /\ Attempts <= 2 + config.loadingMaxRetries
          /\ Len(cls.att) <= 2
          /\ ClassifierCalls <= 2 * Attempts
          /\ cls.c.pc = "returned" => cls.c.decision \in {0, 1, 2}
          /\ cls.c.pc = "thrown" => cls.c.err # NoError)
    /\ <>(cls.c.pc \in {"returned", "thrown"})

\* A call that used every retry and both calls of every attempt:
\* 2 + loadingMaxRetries attempts and twice as many HTTP calls.
C36_Witness ==
    /\ cls.c.pc \in {"returned", "thrown"}
    /\ config.loadingMaxRetries = MaxLoadingRetries
    /\ cls.timeoutWarns = 1
    /\ cls.loadingWarns = MaxLoadingRetries
    /\ Attempts = 2 + MaxLoadingRetries
    /\ ClassifierCalls = 2 * (2 + MaxLoadingRetries)

\* The events of a streamed reply that carry usage where the adapter looks
\* for it (for Anthropic, in a message_start event).
UsageBearing(adapter, events) ==
    {i \in 1..Len(events) :
        events[i].usage.present /\ (adapter = "anthropic" => events[i].start)}

\* C37: an adapter calls recordUsage at most once for a proxied request;
\* of a streamed reply it records the first usage-bearing event only, and
\* later usage objects of the same stream change nothing.
C37_RecordUsageAtMostOnce ==
    px.pc = "done" =>
        /\ px.calls <= 1
        /\ \A name \in DOMAIN buckets :
               /\ buckets[name].requests - px.before[name].requests
                      <= (IF name = px.route THEN 1 ELSE 0)
               /\ buckets[name].withUsage - px.before[name].withUsage
                      <= (IF name = px.route THEN 1 ELSE 0)
        /\ (px.stream /\ px.calls = 1) =>
               LET hits == UsageBearing(px.adapter, px.reply.events)
                   first == CHOOSE i \in hits : \A j \in hits : i <= j
               IN /\ hits # {}
                  /\ buckets = recordUsage(px.before, px.route,
                                           px.reply.events[first].usage)

\* A streamed reply with two usage-bearing events of different content was
\* proxied: one call, and the bucket holds the first event's tokens only.
C37_Witness ==
    /\ px.pc = "done" /\ px.stream /\ px.adapter = "openai"
    /\ Len(px.reply.events) = 2
    /\ px.reply.events[1].usage.input_tokens = 5
    /\ px.reply.events[2].usage.prompt_tokens = 5
    /\ px.calls = 1
    /\ buckets[px.route].totalTokens - px.before[px.route].totalTokens = 5

----------------------------------------------------------------------------
\* providers/sse.js: readSse, stepped through its reads.  The upstream's
\* body is text, a sequence of characters with "LF" for the line feed; util
\* holds the chunks the reader delivers (in), the number of reads made
\* (pos), the buffer and the payloads yielded so far (out).

MaxLines == 2

LF == "LF"
FieldData == <<"d", "a", "t", "a", ":">>
PayloadDone == <<"[", "D", "O", "N", "E", "]">>

\* buffer.split("\n")
RECURSIVE splitLf(_)
splitLf(s) ==
    LET nls == {i \in 1..Len(s) : s[i] = LF}
    IN IF nls = {} THEN <<s>>
       ELSE LET i == MinOf(nls)
            IN <<SubSeq(s, 1, i - 1)>> \o splitLf(SubSeq(s, i + 1, Len(s)))

\* String.prototype.trim, for the white space of the model's texts.
jsTrim(s) ==
    LET ink == {i \in 1..Len(s) : s[i] \notin {" ", "CR", LF}}
    IN IF ink = {} THEN <<>>
       ELSE SubSeq(s, MinOf(ink), CHOOSE i \in ink : \A j \in ink : j <= i)

\* The body of the for loop on one line: skip it, return, or yield data.
sseLine(line) ==
    LET trimmed == jsTrim(line)
    IN IF trimmed = <<>> \/ trimmed[1] = ":" THEN [kind |-> "skip", data |-> <<>>]
       ELSE IF startsWith(trimmed, FieldData)
       THEN LET data == jsTrim(SubSeq(trimmed, 6, Len(trimmed)))
            IN IF data = PayloadDone THEN [kind |-> "return", data |-> <<>>]
               ELSE [kind |-> "yield", data |-> data]
       ELSE [kind |-> "skip", data |-> <<>>]

\* The for loop over the complete lines of one read, from line i on.
RECURSIVE sseLines(_, _)
sseLines(lines, i) ==
    IF i > Len(lines) THEN [returned |-> FALSE, yielded |-> <<>>]
    ELSE LET l == sseLine(lines[i])
             rest == sseLines(lines, i + 1)
         IN CASE l.kind = "return" -> [returned |-> TRUE, yielded |-> <<>>]
              [] l.kind = "yield" -> [rest EXCEPT !.yielded = <<l.data>> \o @]
              [] OTHER -> rest

\* The part of a line read so far, thrown away.
popDropped(lines) == <<>>

\* buffer = lines.pop() || ""
pop(lines) == lines[Len(lines)]

\* One iteration of the while loop of readSse.
readSse(s) ==
    IF s.pos = Len(s.in)
    \* if (done) break
    THEN [s EXCEPT !.done = TRUE]
    ELSE LET lines == splitLf(s.buffer \o s.in[s.pos + 1])
             r == sseLines(SubSeq(lines, 1, Len(lines) - 1), 1)
         IN [s EXCEPT !.pos = @ + 1,
                      !.buffer = pop(lines),
                      !.out = @ \o r.yielded,
                      !.done = r.returned]

\* Lines an upstream sends: data with and without a blank after the colon,
\* with no payload, a comment, a blank line, another field, [DONE].
SseLineTexts ==
    { FieldData \o <<" ", "x">>, FieldData \o <<"y">>, FieldData,
      <<":", " ", "c">>, <<>>, <<"i", "d", ":", "1">>,
      FieldData \o <<" ">> \o PayloadDone }

\* Line-terminated texts of at most n lines.
RECURSIVE SseBodies(_)
SseBodies(n) ==
    IF n = 0 THEN {<<>>}
    ELSE LET shorter == SseBodies(n - 1)
         IN shorter \cup {t \o l \o <<LF>> : t \in shorter, l \in SseLineTexts}

ReadSseCalls ==
    { [fn |-> "readSse", in |-> chunks, pos |-> 0, buffer |-> <<>>,
       out |-> <<>>, done |-> FALSE] :
        chunks \in UNION { Cuts(t, MaxChunks + 1) : t \in SseBodies(MaxLines) } }

InitReadSse ==
    /\ config \in {cf \in ClassifierConfigs :
                     /\ cf.timeoutMs = 800 /\ cf.loadingMaxRetries = MaxLoadingRetries
                     /\ cf.loadingRetryMs = 1200 /\ cf.forceStream}
    /\ cache = CacheEmpty
    /\ cacheLost = FALSE
    /\ req = ReqIdle
    /\ cls = ClsIdle
    /\ sse = SseIdle
    /\ util \in ReadSseCalls
    /\ kv = KvIdle
    /\ buckets = BucketsInit
    /\ px = PxIdle

\* await reader.read() resolves with the next chunk.
ReadSseChunk ==
    /\ util.fn = "readSse" /\ ~util.done
    /\ util.pos < Len(util.in)
    /\ util' = readSse(util)
    /\ UNCHANGED <<config, cache, cacheLost, req, cls, sse, kv, buckets, px>>

\* await reader.read() resolves with done.
ReadSseEnd ==
    /\ util.fn = "readSse" /\ ~util.done
    /\ util.pos = Len(util.in)
    /\ util' = readSse(util)
    /\ UNCHANGED <<config, cache, cacheLost, req, cls, sse, kv, buckets, px>>

NextReadSse == ReadSseChunk \/ ReadSseEnd

SpecReadSse == InitReadSse /\ [][NextReadSse]_vars

\* The payloads of the data lines of a whole text, in order, up to but
\* excluding the first [DONE]; comments, blank lines and other fields skipped.
DataPayloads(text) ==
    LET lines == splitLf(text)
        kinds == [i \in 1..Len(lines) |-> sseLine(lines[i])]
        stops == {i \in 1..Len(lines) : kinds[i].kind = "return"}
        last == IF stops = {} THEN Len(lines) ELSE MinOf(stops) - 1
        F[i \in 0..last] ==
            IF i = 0 THEN <<>>
            ELSE IF kinds[i].kind = "yield" THEN Append(F[i - 1], kinds[i].data)
            ELSE F[i - 1]
    IN F[last]

\* C38: what readSse yields does not depend on how the text is cut into
\* chunks: when it has ended it has yielded the payloads of the text's
\* data lines in order up to the first [DONE], and before that a prefix.
C38_ReadSseChunkIndependent ==
    util.fn = "readSse" =>
        LET all == DataPayloads(Flatten(util.in))
        IN /\ Len(util.out) <= Len(all)
           /\ util.out = SubSeq(all, 1, Len(util.out))
           /\ util.done => util.out = all

\* A text of two data lines was delivered in three chunks, cut inside the
\* field name and inside the second line, and both payloads were yielded.
C38_Witness ==
    /\ util.fn = "readSse" /\ util.done
    /\ Len(util.in) = 3
    /\ util.in[1] = <<"d", "a">>
    /\ util.in[3] = <<"y", LF>>
    /\ util.out = << <<"x">>, <<"y">> >>

\* C39: in every loaded configuration, whatever decision a request
\* reaches, the upstream descriptor handed to the adapter is there and has
\* a base URL.
C39_UpstreamHasBaseUrl ==
    \A r \in 1..NReq :
        Dispatched(r) => HasBaseUrl(req[r].upstream)

\* With the classifier disabled and the cheap and medium tiers set to null
\* in the upstreams file, a request was handed the frontier upstream.
C39_Witness ==
    /\ ~util.out.config.classifier.enabled
    /\ util.out.config.upstreams.cheap = JNull
    /\ util.out.config.upstreams.medium = JNull
    /\ \E r \in 1..NReq :
        /\ Dispatched(r)
        /\ req[r].route = "frontier"
        /\ req[r].upstream = util.out.config.upstreams.frontier
        /\ HasBaseUrl(req[r].upstream)

\* The strings of the three decisions.
DecisionDigits == {"0", "1", "2"}

\* A step that puts a value into the cache is the cache.set of a request
\* whose classification returned: the key is that request's fingerprint and
\* the value is the digit of the decision classifyRequest gave it.
CacheWrittenAfterClassification ==
    \A h \in Hashes :
        (cache'[h] # cache[h] /\ cache'[h] # "null") =>
            /\ cache'[h] \in DecisionDigits
            /\ \E r \in 1..NReq :
                   /\ req[r].pc = "set" /\ req'[r].pc = "dispatch"
                   /\ req[r].hash = h
                   /\ req[r].hash = hashPayload(req[r].payload)
                   /\ req[r].classified = "returned"
                   /\ req[r].events[Len(req[r].events)] = "classify"
                   /\ req[r].decision \in 0..2
                   /\ cache'[h] = String(req[r].decision)

\* What the cache holds and what a request read back from it: a digit, and
\* for the request the decision and the route of that digit.
CachedDecisionRoutes ==
    /\ \A h \in Hashes : cache[h] # "null" => cache[h] \in DecisionDigits
    /\ \A r \in 1..NReq :
           req[r].cached # "null" =>
               /\ req[r].cached \in DecisionDigits
               /\ req[r].cached = "0" => req[r].decision = 0
               /\ req[r].cached = "1" => req[r].decision = 1
               /\ req[r].cached = "2" => req[r].decision = 2
               /\ req[r].pc = "done" =>
                      /\ req[r].route \in {"cheap", "medium", "frontier"}
                      /\ req[r].cached = "0" => req[r].route = "cheap"
                      /\ req[r].cached = "1" => req[r].route = "medium"
                      /\ req[r].cached = "2" => req[r].route = "frontier"

\* C40: every value the router writes to the decision cache is one of the
\* strings "0", "1", "2", written only after a successful classification
\* and under the fingerprint of the classified request; in a cache that
\* only this process writes, every cached decision read back gives the
\* route of its own digit, one of cheap, medium, frontier.
C40_CacheHoldsDecisionDigits ==
    /\ [][CacheWrittenAfterClassification]_vars
    /\ []CachedDecisionRoutes

\* A request was classified as medium and stored "1" under its
\* fingerprint; another request with that fingerprint read "1" back and
\* was routed to medium.
C40_Witness ==
    \E p, q \in 1..NReq :
        /\ p # q
        /\ req[p].classified = "returned" /\ req[p].decision = 1
        /\ "store" \in EventsOf(p) /\ ~req[p].cacheError
        /\ req[q].hash = req[p].hash
        /\ req[q].cached = "1" /\ req[q].classified = "no"
        /\ req[q].pc = "done" /\ req[q].route = "medium"

====
